---- MODULE Spec2Model ----
(***************************************************************************)
(* A model of the GitHub resume monitor: the heuristic classifier          *)
(* (github_monitor.py), the report aggregator, the repository fetch with   *)
(* its README retry loop, and the periodic scheduler (scheduler.py).       *)
(***************************************************************************)
EXTENDS Integers, Sequences, FiniteSets, TLC

(***************************************************************************)
(* Python floats.  A float is kept as the pair <<hi, lo>> that stands for  *)
(* the binary64 value (hi * 2^29 + lo) * 2^-57: every float the program    *)
(* forms here lies in [0, 4) and is a multiple of 2^-57.  fadd is IEEE-754 *)
(* addition: the exact sum rounded to 53 significant bits, ties to even.   *)
(***************************************************************************)
LimbBase == 2^29

\* The float literals of the classifier and of the aggregator
\* (github_monitor.py:541-614, 886-890), by their text.
Literal ==
    [ l0_0 |-> <<0, 0>>,
      l0_05 |-> <<13421772, 429496730>>,
      l0_1 |-> <<26843545, 322122548>>,
      l0_15 |-> <<40265318, 214748364>>,
      l0_2 |-> <<53687091, 107374184>>,
      l0_3 |-> <<80530636, 429496728>>,
      l0_4 |-> <<107374182, 214748368>>,
      l0_5 |-> <<134217728, 0>>,
      l0_6 |-> <<161061273, 322122544>>,
      l0_7 |-> <<187904819, 107374176>>,
      l0_8 |-> <<214748364, 429496736>>,
      l1_0 |-> <<268435456, 0>> ]

\* The number of low bits that rounding to 53 significant bits drops.
RoundShift(hi) ==
    IF hi >= 2^29 THEN 6
    ELSE IF hi >= 2^28 THEN 5
    ELSE IF hi >= 2^27 THEN 4
    ELSE IF hi >= 2^26 THEN 3
    ELSE IF hi >= 2^25 THEN 2
    ELSE IF hi >= 2^24 THEN 1
    ELSE 0

\* <<hi, lo>> with lo brought back below LimbBase
Carry(hi, lo) == <<hi + (lo \div LimbBase), lo % LimbBase>>

\* <<hi, lo>> with the bits below m dropped: round to nearest, ties to even
RoundBy(hi, lo, m) ==
    Carry(hi, lo - (lo % m)
              + (IF /\ m > 1
                    /\ \/ 2 * (lo % m) > m
                       \/ 2 * (lo % m) = m /\ (lo \div m) % 2 = 1
                 THEN m ELSE 0))

\* a + b: the exact sum, rounded to 53 significant bits
fadd(a, b) ==
    LET hi == a[1] + b[1] + ((a[2] + b[2]) \div LimbBase)
    IN  RoundBy(hi, (a[2] + b[2]) % LimbBase, 2^RoundShift(hi))

fgt(a, b) == a[1] > b[1] \/ (a[1] = b[1] /\ a[2] > b[2])

fle(a, b) == ~fgt(a, b)

fmin(a, b) == IF fgt(a, b) THEN b ELSE a

(***************************************************************************)
(* Multiplication by 0.4 and division of integers, for the score of        *)
(* _select_featured_projects.  The double 0.4 is (2^56 + 4) / 10 * 2^-54,  *)
(* so that c * 0.4, for c = C * 2^-57, is exactly                          *)
(* ((4 * C + C \div 2^52) + (C % 2^52) / 2^52) / 10 in units of 2^-57; the *)
(* product is that quotient rounded to 53 significant bits, ties to even.  *)
(* k / n is k * 2^57 / n rounded in the same way.  Both are exact when the *)
(* result is a multiple of 2^-57, as it is for every value formed here.    *)
(***************************************************************************)
\* long division by d: r is the remainder so far and digits the digits still
\* to bring down, each with its width in bits; the digits of the quotient,
\* then the last remainder
RECURSIVE long_div(_, _, _)
long_div(r, digits, d) ==
    IF digits = <<>> THEN <<r>>
    ELSE <<(r * 2^digits[1][2] + digits[1][1]) \div d>>
         \o long_div((r * 2^digits[1][2] + digits[1][1]) % d, Tail(digits), d)

\* round to nearest, ties to even: whether the quotient with low limb ql and
\* remainder r of a division by d, inexact when sticky, goes up
QuotientRoundsUp(ql, r, d, sticky) ==
    \/ 2 * r > d
    \/ 2 * r = d /\ (sticky \/ ql % 2 = 1)

\* the quotient qh * 2^29 + ql, remainder r, of a division by d = d0 * m,
\* m a power of 2: the quotient rounded to an integer, times m
rounded(qh, ql, r, d, m, sticky) ==
    LET q == ql + (IF QuotientRoundsUp(ql, r, d, sticky) THEN 1 ELSE 0)
    IN  Carry(qh * m + (q \div (LimbBase \div m)), (q % (LimbBase \div m)) * m)

\* (n[1] * 2^29 + n[2] + a fraction, non-zero when sticky) / 10, rounded to
\* a multiple of m
tenth(n, m, sticky) ==
    LET g == long_div(n[1] % (10 * m),
                      << <<n[2] \div 2^14, 15>>, <<n[2] % 2^14, 14>> >>, 10 * m)
    IN  rounded(n[1] \div (10 * m), g[1] * 2^14 + g[2], g[3], 10 * m, m, sticky)

\* c * 0.4
times_0_4(c) ==
    LET n == Carry(4 * c[1] + (c[2] \div 2^27),
                   4 * (c[2] % 2^27) + (c[1] \div 2^23))
    IN  tenth(n, 2^RoundShift(n[1] \div 10), c[1] % 2^23 # 0 \/ c[2] # 0)

\* k * 2^57 / n, rounded to a multiple of m: three digits of 19 bits follow
\* the integer part
RoundedQuotient(k, n, m) ==
    LET g == long_div(k % (n * m), << <<0, 19>>, <<0, 19>>, <<0, 19>> >>, n * m)
    IN  rounded((k \div (n * m)) * 2^28 + g[1] * 2^9 + (g[2] \div 2^10),
                (g[2] % 2^10) * 2^19 + g[3], g[4], n * m, m, FALSE)

\* k / n, for integers 0 <= k < 2 * n and n <= 100
int_over(k, n) ==
    LET g == long_div(k % n, << <<0, 19>>, <<0, 19>> >>, n)
    IN  RoundedQuotient(k, n,
            2^RoundShift((k \div n) * 2^28 + g[1] * 2^9 + (g[2] \div 2^10)))

(***************************************************************************)
(* Python strings are sequences of one-character strings.                  *)
(***************************************************************************)
\* str.lower() on the characters it changes
LowerOf ==
    [ A |-> "a", B |-> "b", C |-> "c", D |-> "d", E |-> "e", F |-> "f",
      G |-> "g", H |-> "h", I |-> "i", J |-> "j", K |-> "k", L |-> "l",
      M |-> "m", N |-> "n", O |-> "o", P |-> "p", Q |-> "q", R |-> "r",
      S |-> "s", T |-> "t", U |-> "u", V |-> "v", W |-> "w", X |-> "x",
      Y |-> "y", Z |-> "z" ]

\* str.lower()
lower(s) ==
    [i \in 1..Len(s) |-> IF s[i] \in DOMAIN LowerOf THEN LowerOf[s[i]] ELSE s[i]]

\* keyword in text
contains(text, keyword) ==
    \E i \in 1..(Len(text) - Len(keyword) + 1) :
        SubSeq(text, i, i + Len(keyword) - 1) = keyword

\* ' '.join(parts)
RECURSIVE join(_)
join(parts) ==
    IF Len(parts) = 0 THEN <<>>
    ELSE IF Len(parts) = 1 THEN parts[1]
    ELSE parts[1] \o <<" ">> \o join(Tail(parts))

Space == <<" ">>

(***************************************************************************)
(* The keyword tables of GitHubMonitor.                                    *)
(***************************************************************************)
ai_keywords ==
    << <<"a","i">>,
       <<"m","l">>,
       <<"g","p","t">>,
       <<"c","l","a","u","d","e">>,
       <<"l","l","m">>,
       <<"o","c","r">>,
       <<"a","u","t","o","m","a","t","i","o","n">>,
       <<"i","n","t","e","l","l","i","g","e","n","t">>,
       <<"s","m","a","r","t">>,
       <<"n","e","u","r","a","l">>,
       <<"m","o","d","e","l">>,
       <<"o","p","e","n","a","i">>,
       <<"c","h","a","t","g","p","t">>,
       <<"a","n","t","h","r","o","p","i","c">>,
       <<"m","a","c","h","i","n","e"," ","l","e","a","r","n","i","n","g">>,
       <<"d","e","e","p"," ","l","e","a","r","n","i","n","g">> >>

\* the project types, in the order of declaration: AI工具, 自动化工具, Web应用,
\* 数据处理, 企业系统, 开发工具, 移动应用, 游戏, 区块链, 物联网; the fallback
\* 其他工具 is "other-tool"
project_types ==
    << [type |-> "AI-tool", keywords |-> <<<<"a","i">>, <<"m","l">>, <<"o","c","r">>, <<"t","t","s">>, <<"n","l","p">>, <<"c","v">>>>],
       [type |-> "automation-tool", keywords |-> <<<<"a","u","t","o","m","a","t","i","o","n">>, <<"s","c","r","i","p","t">>, <<"t","o","o","l">>, <<"p","r","o","c","e","s","s">>>>],
       [type |-> "web-app", keywords |-> <<<<"w","e","b">>, <<"a","p","p">>, <<"f","r","o","n","t","e","n","d">>, <<"b","a","c","k","e","n","d">>, <<"a","p","i">>>>],
       [type |-> "data-processing-tool", keywords |-> <<<<"d","a","t","a">>, <<"a","n","a","l","y","s","i","s">>, <<"e","t","l">>, <<"d","a","t","a","b","a","s","e">>>>],
       [type |-> "enterprise-system", keywords |-> <<<<"e","n","t","e","r","p","r","i","s","e">>, <<"b","u","s","i","n","e","s","s">>, <<"m","a","n","a","g","e","m","e","n","t">>, <<"c","r","m">>>>],
       [type |-> "dev-tool", keywords |-> <<<<"d","e","v">>, <<"t","o","o","l">>, <<"u","t","i","l","i","t","y">>, <<"h","e","l","p","e","r">>>>],
       [type |-> "mobile-app", keywords |-> <<<<"m","o","b","i","l","e">>, <<"a","n","d","r","o","i","d">>, <<"i","o","s">>, <<"a","p","p">>>>],
       [type |-> "game", keywords |-> <<<<"g","a","m","e">>, <<"u","n","i","t","y">>, <<"e","n","g","i","n","e">>>>],
       [type |-> "blockchain", keywords |-> <<<<"b","l","o","c","k","c","h","a","i","n">>, <<"c","r","y","p","t","o">>, <<"w","e","b","3">>, <<"d","e","f","i">>>>],
       [type |-> "iot", keywords |-> <<<<"i","o","t">>, <<"s","e","n","s","o","r">>, <<"e","m","b","e","d","d","e","d">>, <<"a","r","d","u","i","n","o">>>>] >>

feature_keywords ==
    << [feature |-> "automation-processing", keywords |-> <<<<"a","u","t","o">>, <<"a","u","t","o","m","a","t","i","c">>, <<"b","a","t","c","h">>, <<"p","r","o","c","e","s","s">>>>],
       [feature |-> "AI-integration", keywords |-> <<<<"a","i">>, <<"g","p","t">>, <<"c","l","a","u","d","e">>, <<"m","l">>, <<"i","n","t","e","l","l","i","g","e","n","t">>>>],
       [feature |-> "web-interface", keywords |-> <<<<"w","e","b">>, <<"u","i">>, <<"i","n","t","e","r","f","a","c","e">>, <<"d","a","s","h","b","o","a","r","d">>>>],
       [feature |-> "API-interface", keywords |-> <<<<"a","p","i">>, <<"r","e","s","t">>, <<"e","n","d","p","o","i","n","t">>, <<"s","e","r","v","i","c","e">>>>],
       [feature |-> "data-processing", keywords |-> <<<<"d","a","t","a">>, <<"c","s","v">>, <<"j","s","o","n">>, <<"d","a","t","a","b","a","s","e">>>>],
       [feature |-> "image-processing", keywords |-> <<<<"i","m","a","g","e">>, <<"o","c","r">>, <<"c","v">>, <<"v","i","s","i","o","n">>>>],
       [feature |-> "file-management", keywords |-> <<<<"f","i","l","e">>, <<"f","o","l","d","e","r">>, <<"d","o","c","u","m","e","n","t">>, <<"e","x","p","o","r","t">>>>],
       [feature |-> "real-time-processing", keywords |-> <<<<"r","e","a","l","-","t","i","m","e">>, <<"l","i","v","e">>, <<"m","o","n","i","t","o","r">>, <<"w","a","t","c","h">>>>],
       [feature |-> "batch-operations", keywords |-> <<<<"b","a","t","c","h">>, <<"b","u","l","k">>, <<"m","u","l","t","i","p","l","e">>, <<"m","a","s","s">>>>],
       [feature |-> "cross-platform", keywords |-> <<<<"c","r","o","s","s","-","p","l","a","t","f","o","r","m">>, <<"m","u","l","t","i","-","p","l","a","t","f","o","r","m">>, <<"u","n","i","v","e","r","s","a","l">>>>] >>

(***************************************************************************)
(* Repository records (the Repository dataclass).  A name, a description   *)
(* and a topic are strings.  readme_content is kept as [text, pad]: the    *)
(* string text followed by pad further characters, none of which is a      *)
(* letter of a keyword, so that a README of 6000 characters is one record. *)
(* languages is the language -> byte count histogram.  updated_at is       *)
(* <<"iso", t>> for a timestamp text that parses to the instant t (in      *)
(* days), or <<"bad">> for a text datetime.fromisoformat rejects.          *)
(***************************************************************************)
readme_len(repo) == Len(repo.readme_content.text) + repo.readme_content.pad

\* github_monitor.py:521 and :535 build the same corpus
text_to_analyze(repo) ==
    lower(repo.name \o Space \o repo.description \o Space
          \o join(repo.topics) \o Space \o repo.readme_content.text)

\* sum(1 for keyword in keywords if keyword in text_to_analyze)
type_score(text, keywords) ==
    Cardinality({k \in 1..Len(keywords) : contains(text, keywords[k])})

\* a maximum search in which a later type of equal score takes over
RECURSIVE max_score_last_wins(_, _, _)
max_score_last_wins(text, i, best) ==
    IF i > Len(project_types) THEN best
    ELSE IF type_score(text, project_types[i].keywords) >=
                (IF best = 0 THEN 1
                 ELSE type_score(text, project_types[best].keywords))
         THEN max_score_last_wins(text, i + 1, i)
         ELSE max_score_last_wins(text, i + 1, best)

\* max(scores, key=scores.get) over the types from position i on, best being
\* the position of the highest score so far (0 when no score is above 0):
\* a later type takes over only with a strictly higher score
RECURSIVE max_score_from(_, _, _)
max_score_from(text, i, best) ==
    IF i > Len(project_types) THEN best
    ELSE IF type_score(text, project_types[i].keywords) >
                (IF best = 0 THEN 0
                 ELSE type_score(text, project_types[best].keywords))
         THEN max_score_from(text, i + 1, i)
         ELSE max_score_from(text, i + 1, best)

_classify_project_type(repo) ==
    LET best == max_score_from(text_to_analyze(repo), 1, 0)
    IN  IF best = 0 THEN "other-tool" ELSE project_types[best].type

_detect_ai_collaboration(repo) ==
    \E i \in 1..Len(ai_keywords) :
        contains(text_to_analyze(repo), ai_keywords[i])

\* score += w for each entry w in turn, from score = 0.0 (a band that adds
\* nothing is the entry 0.0: x + 0.0 is x)
RECURSIVE fsum(_, _)
fsum(score, weights) ==
    IF Len(weights) = 0 THEN score
    ELSE fsum(fadd(score, Head(weights)), Tail(weights))

\* the weight of the band a metric falls in: the metrics of lines 541-581
\* other than the stars
band(metric, v) ==
    CASE metric = "size" ->
             IF v > 10000 THEN Literal.l0_3
             ELSE IF v > 1000 THEN Literal.l0_2
             ELSE IF v > 100 THEN Literal.l0_1
             ELSE Literal.l0_0
      [] metric = "languages" ->
             IF v > 5 THEN Literal.l0_2
             ELSE IF v > 3 THEN Literal.l0_15
             ELSE IF v > 1 THEN Literal.l0_1
             ELSE Literal.l0_0
      [] metric = "forks" ->
             IF v > 20 THEN Literal.l0_1
             ELSE IF v > 5 THEN Literal.l0_05
             ELSE Literal.l0_0
      [] metric = "readme" ->
             IF v > 5000 THEN Literal.l0_1
             ELSE IF v > 1000 THEN Literal.l0_05
             ELSE Literal.l0_0
      [] metric = "topics" ->
             IF v > 5 THEN Literal.l0_1
             ELSE IF v > 2 THEN Literal.l0_05
             ELSE Literal.l0_0

\* mutant of stars_band: the two bands carry each other's weight
stars_band_swapped(repo) ==
    IF repo.stars > 50 THEN Literal.l0_05
    ELSE IF repo.stars > 10 THEN Literal.l0_1
    ELSE Literal.l0_0

stars_band(repo) ==
    IF repo.stars > 50 THEN Literal.l0_1
    ELSE IF repo.stars > 10 THEN Literal.l0_05
    ELSE Literal.l0_0

_calculate_complexity(repo) ==
    fmin(fsum(Literal.l0_0,
              << band("size", repo.size),
                 band("languages", Cardinality(DOMAIN repo.languages)),
                 stars_band(repo),
                 band("forks", repo.forks),
                 band("readme", readme_len(repo)),
                 band("topics", Len(repo.topics)) >>),
         Literal.l1_0)

(***************************************************************************)
(* The six business-value tiers and the five duration buckets, by the      *)
(* names the specification gives them:                                     *)
(*   "high/AI-complex"               高价值 - AI协作复杂项目               *)
(*   "medium-high/AI-applied"        中高价值 - AI应用项目                 *)
(*   "medium-high/complex-technical" 中高价值 - 复杂技术项目               *)
(*   "medium/AI-tool"                中等价值 - AI工具应用                 *)
(*   "medium/practical-tool"         中等价值 - 实用工具                   *)
(*   "baseline/learning-project"     基础价值 - 学习项目                   *)
(*   "2-6 months" 2-6个月, "1-3 months" 1-3个月, "2-6 weeks" 2-6周,        *)
(*   "1-2 weeks" 1-2周, "days" 数天                                        *)
(***************************************************************************)
\* mutant of business_value_of: the comparisons with 0.7 are not strict
business_value_of_inclusive(complexity, ai_collab) ==
    IF ~fgt(Literal.l0_7, complexity) /\ ai_collab THEN "high/AI-complex"
    ELSE IF fgt(complexity, Literal.l0_5) /\ ai_collab THEN "medium-high/AI-applied"
    ELSE IF ~fgt(Literal.l0_7, complexity) THEN "medium-high/complex-technical"
    ELSE IF ai_collab THEN "medium/AI-tool"
    ELSE IF fgt(complexity, Literal.l0_4) THEN "medium/practical-tool"
    ELSE "baseline/learning-project"

\* mutant of business_value_of: the AI-alone rule is tried before the
\* complexity rules
business_value_of_reordered(complexity, ai_collab) ==
    IF ai_collab THEN "medium/AI-tool"
    ELSE IF fgt(complexity, Literal.l0_7) /\ ai_collab THEN "high/AI-complex"
    ELSE IF fgt(complexity, Literal.l0_5) /\ ai_collab THEN "medium-high/AI-applied"
    ELSE IF fgt(complexity, Literal.l0_7) THEN "medium-high/complex-technical"
    ELSE IF fgt(complexity, Literal.l0_4) THEN "medium/practical-tool"
    ELSE "baseline/learning-project"

business_value_of(complexity, ai_collab) ==
    IF fgt(complexity, Literal.l0_7) /\ ai_collab THEN "high/AI-complex"
    ELSE IF fgt(complexity, Literal.l0_5) /\ ai_collab THEN "medium-high/AI-applied"
    ELSE IF fgt(complexity, Literal.l0_7) THEN "medium-high/complex-technical"
    ELSE IF ai_collab THEN "medium/AI-tool"
    ELSE IF fgt(complexity, Literal.l0_4) THEN "medium/practical-tool"
    ELSE "baseline/learning-project"

_assess_business_value(repo) ==
    LET complexity == _calculate_complexity(repo)
        ai_collab  == _detect_ai_collaboration(repo)
    IN  business_value_of(complexity, ai_collab)

\* mutant of _estimate_duration: every threshold one bucket too low
_estimate_duration_shifted(repo, complexity) ==
    IF fgt(complexity, Literal.l0_6) THEN "2-6 months"
    ELSE IF fgt(complexity, Literal.l0_4) THEN "1-3 months"
    ELSE IF fgt(complexity, Literal.l0_2) THEN "2-6 weeks"
    ELSE IF fgt(complexity, Literal.l0_0) THEN "1-2 weeks"
    ELSE "days"

\* _estimate_duration with >= for > in every test
_estimate_duration_inclusive(repo, complexity) ==
    IF ~fgt(Literal.l0_8, complexity) THEN "2-6 months"
    ELSE IF ~fgt(Literal.l0_6, complexity) THEN "1-3 months"
    ELSE IF ~fgt(Literal.l0_4, complexity) THEN "2-6 weeks"
    ELSE IF ~fgt(Literal.l0_2, complexity) THEN "1-2 weeks"
    ELSE "days"

_estimate_duration(repo, complexity) ==
    IF fgt(complexity, Literal.l0_8) THEN "2-6 months"
    ELSE IF fgt(complexity, Literal.l0_6) THEN "1-3 months"
    ELSE IF fgt(complexity, Literal.l0_4) THEN "2-6 weeks"
    ELSE IF fgt(complexity, Literal.l0_2) THEN "1-2 weeks"
    ELSE "days"

_extract_key_features(repo) ==
    LET text == lower(repo.description \o Space \o repo.readme_content.text)
        hit(f) == \E k \in 1..Len(f.keywords) : contains(text, f.keywords[k])
        matched == SelectSeq(feature_keywords, hit)
        features == [i \in 1..Len(matched) |-> matched[i].feature]
    IN  SubSeq(features, 1, IF Len(features) < 5 THEN Len(features) ELSE 5)

\* the seed of the str hashes of the process: PYTHONHASHSEED, random by default
VARIABLE hash_seed

HashSeeds == 0..2

\* self.tech_mapping, as its <<language, tag>> pairs in declaration order
tech_mapping ==
    << <<"Python", "AI/ML">>, <<"Python", "data-processing">>,
       <<"Python", "automation">>, <<"Python", "web-dev">>,
       <<"JavaScript", "frontend-dev">>, <<"JavaScript", "web-app">>,
       <<"JavaScript", "Node.js">>, <<"JavaScript", "React">>,
       <<"TypeScript", "frontend-framework">>, <<"TypeScript", "enterprise-app">>,
       <<"TypeScript", "type-safety">>,
       <<"HTML", "web-frontend">>, <<"HTML", "user-interface">>,
       <<"CSS", "ui-design">>, <<"CSS", "responsive-layout">>,
       <<"Go", "microservice">>, <<"Go", "cloud-native">>,
       <<"Go", "high-performance">>,
       <<"Java", "enterprise-application">>, <<"Java", "backend-service">>,
       <<"Java", "Spring">>,
       <<"Dockerfile", "containerization">>, <<"Dockerfile", "DevOps">>,
       <<"Dockerfile", "deploy-automation">>,
       <<"Shell", "ops-automation">>, <<"Shell", "script-tool">> >>

\* the slot a set of strings iterates i-th under a seed: str hashes, and so
\* the order list(set(...)) yields, are a permutation fixed by the seed
hash_slot(i, seed) ==
    (((i - 1) * (2 * seed + 1) + seed) % Len(tech_mapping)) + 1

\* list(tags) for a set of tags, in a process of the given seed
list_of_set(tags, seed) ==
    LET held == SelectSeq([i \in 1..Len(tech_mapping) |->
                              tech_mapping[hash_slot(i, seed)]],
                          LAMBDA pair : pair[2] \in tags)
    IN  [i \in 1..Len(held) |-> held[i][2]]

\* tech_stack of analyze_project: the tags of every language of the
\* histogram that the mapping holds, whatever its byte count, through
\* list(set(...))
tech_stack_of(r, seed) ==
    list_of_set({ tech_mapping[k][2] :
                    k \in { n \in 1..Len(tech_mapping) :
                              tech_mapping[n][1] \in DOMAIN r.languages } },
                seed)

\* role suggestions that append the fallback role to the fired rules and
\* return all of them
_suggest_roles_untruncated(r, tech_stack, ai_collab) ==
    LET tags  == {tech_stack[i] : i \in 1..Len(tech_stack)}
        rules == << [role |-> "AI-collaboration-expert", fires |-> ai_collab],
                    [role |-> "frontend-engineer",
                     fires |-> tags \cap {"frontend-dev", "web-app", "React"} # {}],
                    [role |-> "AI-product-manager",
                     fires |-> tags \cap {"AI/ML", "data-processing"} # {}],
                    [role |-> "automation-expert",
                     fires |-> tags \cap {"automation", "script-tool"} # {}],
                    [role |-> "tech-lead",
                     fires |-> r.stars > 10 \/ r.forks > 5] >>
        fired == SelectSeq(rules, LAMBDA rule : rule.fires)
    IN  [i \in 1..Len(fired) |-> fired[i].role] \o <<"engineer">>

_suggest_roles(r, tech_stack, ai_collab) ==
    LET tags  == {tech_stack[i] : i \in 1..Len(tech_stack)}
        rules == << [role |-> "AI-collaboration-expert", fires |-> ai_collab],
                    [role |-> "frontend-engineer",
                     fires |-> tags \cap {"frontend-dev", "web-app", "React"} # {}],
                    [role |-> "AI-product-manager",
                     fires |-> tags \cap {"AI/ML", "data-processing"} # {}],
                    [role |-> "automation-expert",
                     fires |-> tags \cap {"automation", "script-tool"} # {}],
                    [role |-> "tech-lead",
                     fires |-> r.stars > 10 \/ r.forks > 5] >>
        fired == SelectSeq(rules, LAMBDA rule : rule.fires)
        roles == IF fired = <<>> THEN <<"engineer">>
                 ELSE [i \in 1..Len(fired) |-> fired[i].role]
    IN  SubSeq(roles, 1, IF Len(roles) < 3 THEN Len(roles) ELSE 3)

analyze_project(r) ==
    LET ai_collaboration == _detect_ai_collaboration(r)
        complexity_score == _calculate_complexity(r)
        tech_stack       == tech_stack_of(r, hash_seed)
    IN  [ repo               |-> r,
          project_type       |-> _classify_project_type(r),
          tech_stack         |-> tech_stack,
          business_value     |-> _assess_business_value(r),
          complexity_score   |-> complexity_score,
          ai_collaboration   |-> ai_collaboration,
          estimated_duration |-> _estimate_duration(r, complexity_score),
          key_features       |-> _extract_key_features(r),
          role_suggestions   |-> _suggest_roles(r, tech_stack, ai_collaboration) ]

\* the day of now, on the UTC clock
Today == 100

\* timedelta(days=1), in hours: instants and clock readings are in hours
HoursPerDay == 24

\* the text GitHub gives for the instant d days and h hours before now: the
\* reading of the UTC clock at that instant, with the suffix 'Z'
Ago(d, h) == <<"iso", (Today - d) * HoursPerDay - h>>

(***************************************************************************)
(* State.                                                                  *)
(***************************************************************************)
VARIABLES
    repo,       \* the Repository handed to analyze_project
    analysis,   \* <<>> before the call, <<ProjectAnalysis>> after it
    analyses,   \* the list of ProjectAnalysis handed to generate_resume_report
    report,     \* <<>> before generate_resume_report ends, <<its outcome>> after
    sched_pc,   \* run_scheduler: "boot", "initial", "sleep", "pending", "stopped";
                \* main --once: "main", "once", "exited", "stopped"
    due,        \* the scheduled jobs whose next run time has passed
    pending,    \* run_pending: the runnable jobs it has still to run
    job,        \* the job whose run is in progress, "initial" for the first run
    in_flight,  \* the number of run_analysis calls entered and not yet left
    monitor,    \* self.monitor is set (the token and the username are configured)
    config,     \* self.config: report_formats and the notification channels enabled
    utc_offset, \* the UTC offset, in hours, of the time zone the process runs in
    files,      \* the report files of the run on disk, by name
    fmt_idx,    \* _save_analysis_data: the position of fmt in report_formats
    rendered,   \* <<>>, or <<the last generate_report call of the run: its
                \* format_type and its outcome>>
    sent,       \* the notifications the run has sent: channel and attachments
    run_pc,     \* run_analysis: "idle", "list", "languages", "readme",
                \* "analyze", "report", "save", "notify", "return"
    force,      \* force_notification
    page,       \* get_user_repos: page
    batch,      \* get_user_repos: batch_repos
    idx,        \* get_user_repos: the position of repo_data in batch_repos
    repos,      \* get_user_repos: repos
    languages,  \* get_user_repos: languages
    call,       \* the get_readme_content call in progress
    result,     \* what run_analysis returns: <<>> for None, <<report_data>>
    limit,      \* the limit handed to _select_featured_projects
    featured,   \* <<>> before _select_featured_projects ends, <<its list>> after
    DEEP_ANALYSIS_AVAILABLE,  \* the enrichment modules were imported
    deep_report \* <<>> before generate_deep_report ends, <<its outcome>> after

reportVars == <<analyses, report>>

\* the arguments and the results of the functions applied on their own
unitVars == <<repo, analysis, limit, featured, DEEP_ANALYSIS_AVAILABLE,
             deep_report>>

envVars == <<monitor, config, utc_offset, hash_seed>>

schedVars == <<sched_pc, due, pending, job, in_flight, envVars>>

saveVars == <<files, fmt_idx, rendered, sent>>

fetchVars == <<page, batch, idx, repos, languages, call>>

runVars == <<run_pc, force, result>>

vars == <<repo, analysis, analyses, report, sched_pc, due, pending, job,
          in_flight, monitor, run_pc, force, page, batch, idx, repos, languages, call,
          result, config, utc_offset, hash_seed, files, fmt_idx, rendered, sent,
          limit,
          featured, DEEP_ANALYSIS_AVAILABLE, deep_report>>

(***************************************************************************)
(* Inputs of the classifier: every metric takes a value in each band of     *)
(* _calculate_complexity, the largest value of each lower band included.   *)
(***************************************************************************)

\* a histogram over the first k languages
Histogram(k) ==
    [l \in {<<"Python", "JavaScript", "TypeScript", "HTML", "CSS", "Go", "Java">>[i] :
                i \in 1..k} |-> 5000]

TopicPool == << <<"c","l","i">>, <<"g","o">>, <<"d","b">>, <<"u","x">>,
                <<"q","a">>, <<"v","m">>, <<"o","s">> >>

\* a README of n characters that starts with text
Readme(text, n) == [text |-> text, pad |-> n - Len(text)]

NameAI    == <<"a","i","-","k","i","t">>
NamePlain == <<"n","o","t","e","s">>

\* the values each metric of _calculate_complexity takes
MetricValues ==
    [ size      |-> {100, 1000, 10000, 10001},
      languages |-> {1, 3, 5, 6},
      stars     |-> {10, 50, 60},
      forks     |-> {5, 20, 25},
      readme    |-> {1000, 5000, 6000},
      topics    |-> {2, 5, 6} ]

PlainRepo ==
    [ name           |-> NamePlain,
      description    |-> <<>>,
      languages      |-> Histogram(1),
      topics         |-> <<>>,
      stars          |-> 0,
      forks          |-> 0,
      size           |-> 100,
      updated_at     |-> Ago(29, 0),
      is_private     |-> FALSE,
      readme_content |-> Readme(<<>>, 0) ]

\* names whose keywords tie two project types, or match none
NameTool == <<"t","o","o","l">>
NameApp  == <<"a","p","p">>

\* histograms with a language of zero bytes, and with a language the
\* mapping does not hold
OddHistograms ==
    { [l \in {"Shell"} |-> 0], [l \in {"Rust"} |-> 10],
      [l \in {"Python", "Shell"} |-> IF l = "Shell" THEN 0 ELSE 5000],
      [l \in {"Rust", "Go"} |-> 700] }

ClassifyRepos ==
    { [ name           |-> n,
        description    |-> <<>>,
        languages      |-> Histogram(lc),
        topics         |-> SubSeq(TopicPool, 1, tc),
        stars          |-> st,
        forks          |-> fk,
        size           |-> sz,
        updated_at     |-> Ago(0, 0),
        is_private     |-> FALSE,
        readme_content |-> Readme(<<"d","e","m","o">>, rl) ] :
      n \in {NameAI, NamePlain}, lc \in MetricValues.languages,
      tc \in MetricValues.topics, st \in MetricValues.stars,
      fk \in MetricValues.forks, sz \in MetricValues.size,
      rl \in MetricValues.readme }
    \cup { [PlainRepo EXCEPT !.name = n, !.languages = h, !.stars = st] :
             n \in {NameAI, NamePlain, NameTool, NameApp}, h \in OddHistograms,
             st \in {10, 11} }

(***************************************************************************)
(* SpecClassify: analyze_project applied to one record.                    *)
(***************************************************************************)
\* the get_readme_content call: none in progress, and one just entered
NoCall  == [state |-> "idle", attempt |-> 0, log |-> <<>>, sleeps |-> <<>>, result |-> <<>>]

FetchIdle ==
    /\ page = 1
    /\ batch = <<>>
    /\ idx = 0
    /\ repos = <<>>
    /\ languages = Histogram(0)
    /\ call = NoCall

\* the format selectors, as strings
Markdown == <<"m","a","r","k","d","o","w","n">>
Html     == <<"h","t","m","l">>
Text     == <<"t","e","x","t">>

\* ResumeReportGenerator.templates: the selectors it has a renderer for
templates == {Markdown, Html, Text}

\* save_report: extensions
extensions(format_type) ==
    CASE format_type = Markdown -> <<".","m","d">>
      [] format_type = Html     -> <<".","h","t","m","l">>
      [] format_type = Text     -> <<".","t","x","t">>

endswith(s, suffix) ==
    /\ Len(s) >= Len(suffix)
    /\ SubSeq(s, Len(s) - Len(suffix) + 1, Len(s)) = suffix

\* _save_analysis_data: f"{prefix}_{timestamp}.{fmt}", the timestamp left out
report_file(fmt) == <<"r","e","p","o","r","t",".">> \o fmt

json_file == report_file(<<"j","s","o","n">>)

\* save_report: the name of the file it writes
save_report_path(filename, format_type) ==
    IF endswith(filename, extensions(format_type))
    THEN filename
    ELSE filename \o extensions(format_type)

\* the files a run may write; a file is "absent", "empty" (opened for
\* writing, nothing written yet) or "complete"
NoFiles ==
    [f \in {json_file} \cup {save_report_path(report_file(t), t) : t \in templates}
        |-> "absent"]

\* _create_default_config
default_config ==
    [ report_formats  |-> <<Markdown, Html>>,
      email_enabled   |-> TRUE,
      webhook_enabled |-> FALSE ]

SaveIdle ==
    /\ files = NoFiles
    /\ fmt_idx = 0
    /\ rendered = <<>>
    /\ sent = {}

\* the scheduler is not running
SchedulerOff ==
    /\ sched_pc = "off"
    /\ due = {}
    /\ pending = {}
    /\ job = "none"
    /\ in_flight = 0
    /\ monitor = FALSE
    /\ config = default_config
    /\ run_pc = "idle"
    /\ force = FALSE
    /\ result = <<>>
    /\ FetchIdle
    /\ SaveIdle

\* no function is applied on its own
UnitsIdle ==
    /\ repo = <<>>
    /\ analysis = <<>>
    /\ limit = 0
    /\ featured = <<>>
    /\ DEEP_ANALYSIS_AVAILABLE = FALSE
    /\ deep_report = <<>>

InitClassify ==
    /\ repo \in ClassifyRepos
    /\ analysis = <<>>
    /\ analyses = <<>>
    /\ report = <<>>
    /\ limit = 0
    /\ featured = <<>>
    /\ DEEP_ANALYSIS_AVAILABLE = FALSE
    /\ deep_report = <<>>
    /\ SchedulerOff
    /\ utc_offset = 0
    /\ hash_seed \in HashSeeds

Classify ==
    /\ analysis = <<>>
    /\ analysis' = <<analyze_project(repo)>>
    /\ UNCHANGED <<repo, limit, featured, DEEP_ANALYSIS_AVAILABLE, deep_report,
                   reportVars, schedVars, fetchVars, runVars, saveVars>>

SpecClassify == InitClassify /\ [][Classify]_vars

(***************************************************************************)
(* The aggregator: generate_resume_report.                                 *)
(***************************************************************************)
\* days_back of generate_resume_report
days_back == 30

\* datetime.fromisoformat(updated_at) succeeds
parses(updated_at) == updated_at[1] = "iso"

_is_significant_update(a) ==
    \/ fgt(a.complexity_score, Literal.l0_5)
    \/ a.ai_collaboration
    \/ a.repo.stars > 5
    \/ Len(a.key_features) > 3

\* datetime.now() - timedelta(days=days_back): datetime.now() is the reading
\* of the local clock, which is utc_offset hours ahead of the UTC clock
cutoff_date == Today * HoursPerDay + utc_offset - days_back * HoursPerDay

\* the loop of lines 676-698: recent_projects.  tzinfo is replaced by None on
\* updated_time, so that the reading of the UTC clock at the update is
\* compared with a reading of the local clock
is_recent(a) ==
    /\ parses(a.repo.updated_at)
    /\ a.repo.updated_at[2] > cutoff_date

\* the loop of lines 676-698: whether an iteration reaches the test of line 697
\* (a timestamp that does not parse takes the continue of line 694)

in_updated_projects(a) ==
    parses(a.repo.updated_at) /\ _is_significant_update(a)


\* types[key] = 1, with no regard for the count so far
increment_overwrites(types, key) ==
    [k \in DOMAIN types \cup {key} |-> IF k = key THEN 1 ELSE types[k]]

\* types[key] += 1 on a defaultdict(int)
increment(types, key) ==
    [k \in DOMAIN types \cup {key} |->
        IF k = key
        THEN (IF key \in DOMAIN types THEN types[key] ELSE 0) + 1
        ELSE types[k]]

\* the loop of _generate_project_stats from position i on
RECURSIVE tally_types(_, _, _)
tally_types(list, i, types) ==
    IF i > Len(list) THEN types
    ELSE tally_types(list, i + 1, increment(types, list[i].project_type))

\* the lists of a list of lists, one after the other
RECURSIVE concat(_)
concat(lists) ==
    IF Len(lists) = 0 THEN <<>> ELSE Head(lists) \o concat(Tail(lists))

\* counts[key] += 1 on a defaultdict(int) for every key in turn: the items
\* of the dict, <<key, count>>, in the order the keys were first met
count_keys(keys) ==
    LET first == SelectSeq([i \in 1..Len(keys) |-> i],
                           LAMBDA i : \A j \in 1..(i - 1) : keys[j] # keys[i])
    IN  [n \in 1..Len(first) |->
            << keys[first[n]],
               Cardinality({j \in 1..Len(keys) : keys[j] = keys[first[n]]}) >>]

\* the items in the order they were given
unsorted(items) == items

\* dict(sorted(items, key=lambda x: x[1], reverse=True)): descending count,
\* the items of one count in the order they were given
sorted_by_count(items) ==
    LET place_of == [i \in 1..Len(items) |->
                        Cardinality({j \in 1..Len(items) :
                                        \/ items[j][2] > items[i][2]
                                        \/ items[j][2] = items[i][2] /\ j <= i})]
    IN  [n \in 1..Len(items) |->
            items[CHOOSE i \in 1..Len(items) : place_of[i] = n]]

_generate_project_stats(list) ==
    [ project_types    |-> tally_types(list, 1, <<>>),
      tech_stack_usage |->
          sorted_by_count(count_keys(concat(
              [i \in 1..Len(list) |-> list[i].tech_stack]))) ]

_generate_skill_matrix(list) ==
    sorted_by_count(count_keys(concat(
        [i \in 1..Len(list) |->
            list[i].tech_stack
            \o (IF list[i].ai_collaboration THEN <<"AI-collaboration">> ELSE <<>>)
            \o list[i].role_suggestions])))

\* '高价值' in business_value: the text of three tiers holds it, the two
\* medium-high ones included
holds_high_value(a) ==
    a.business_value \in { "high/AI-complex", "medium-high/AI-applied",
                           "medium-high/complex-technical" }

\* the suggestions, each with the number its text gives, the last with the
\* first five of list(new_skills)
_generate_update_suggestions(recent_projects, updated_projects) ==
    LET ai_projects == SelectSeq(recent_projects, LAMBDA p : p.ai_collaboration)
        high_value  == SelectSeq(recent_projects, holds_high_value)
        new_skills  == list_of_set(
                           UNION { {p.tech_stack[i] : i \in 1..Len(p.tech_stack)} :
                                   p \in {recent_projects[k] :
                                              k \in 1..Len(recent_projects)} },
                           hash_seed)
    IN  SelectSeq(
            << [kind |-> "recent", count |-> Len(recent_projects), tags |-> <<>>],
               [kind |-> "ai", count |-> Len(ai_projects), tags |-> <<>>],
               [kind |-> "high-value", count |-> Len(high_value), tags |-> <<>>],
               [kind |-> "new-skills", count |-> Len(new_skills),
                tags |-> SubSeq(new_skills, 1,
                                IF Len(new_skills) < 5 THEN Len(new_skills) ELSE 5)] >>,
            LAMBDA suggestion : suggestion.count > 0)


\* the score of lines 886-890, for stars < 200 and forks < 100
featured_score(a) ==
    fadd(fadd(IF a.ai_collaboration
              THEN fadd(times_0_4(a.complexity_score), Literal.l0_3)
              ELSE times_0_4(a.complexity_score),
              fmin(int_over(a.repo.stars, 100), Literal.l0_2)),
         fmin(int_over(a.repo.forks, 50), Literal.l0_1))

\* scored_projects.append((score, analysis)) for every analysis
scored_projects(list) ==
    [i \in 1..Len(list) |-> <<featured_score(list[i]), list[i]>>]

\* the number of elements of sorted that x does not go before
place_before_equals(sorted, x) ==
    Cardinality({j \in 1..Len(sorted) : fgt(sorted[j][1], x[1])})

\* list.sort(key=lambda x: x[0], reverse=True) keeps the elements of equal
\* key in their order: the number of elements of sorted, a list in descending
\* order of key, that x does not go before
place(sorted, x) ==
    Cardinality({j \in 1..Len(sorted) : ~fgt(x[1], sorted[j][1])})

insert(sorted, x) ==
    SubSeq(sorted, 1, place(sorted, x)) \o <<x>>
        \o SubSeq(sorted, place(sorted, x) + 1, Len(sorted))

\* list.sort(key=lambda x: x[0], reverse=True), from position i on
RECURSIVE sort_from(_, _, _)
sort_from(list, i, sorted) ==
    IF i > Len(list) THEN sorted
    ELSE sort_from(list, i + 1, insert(sorted, list[i]))

\* list[:n]
slice_to(list, n) ==
    IF n >= 0
    THEN SubSeq(list, 1, IF n < Len(list) THEN n ELSE Len(list))
    ELSE SubSeq(list, 1, IF Len(list) + n > 0 THEN Len(list) + n ELSE 0)

\* limit of _select_featured_projects when the caller gives none
default_limit == 5

_select_featured_projects(list, n) ==
    [i \in 1..Len(slice_to(list, n)) |->
        slice_to(sort_from(scored_projects(list), 1, <<>>), n)[i][2]]


\* the outcome of generate_resume_report: the exception it raises, or the report
generate_resume_report(list) ==
    IF Len(list) = 0
    THEN [ raised |-> "ZeroDivisionError" ]
    ELSE [ raised  |-> "",
           summary |->
               [ total_repos         |-> Len(list),
                 recent_updates      |-> Len(SelectSeq(list, is_recent)),
                 significant_updates |-> Len(SelectSeq(list, in_updated_projects)),
                 ai_projects         |-> Len(SelectSeq(list, LAMBDA a : a.ai_collaboration)),
                 \* sum(...) / len(analyses), kept as the two operands
                 avg_complexity      |-> [ sum   |-> fsum(Literal.l0_0,
                                        [i \in 1..Len(list) |-> list[i].complexity_score]),
                                           count |-> Len(list) ] ],
           project_stats  |-> _generate_project_stats(list),
           skill_matrix   |-> _generate_skill_matrix(list),
           update_suggestions |->
               _generate_update_suggestions(SelectSeq(list, is_recent),
                                            SelectSeq(list, in_updated_projects)),
           featured_projects |->
               _select_featured_projects(list, default_limit),
           recent_updates |-> SelectSeq(list, is_recent) ]

(***************************************************************************)
(* Inputs of the aggregator: one record for each way of being, or not      *)
(* being, a significant update, with a recent, an old and an unparseable   *)
(* timestamp.                                                              *)
(***************************************************************************)
MaxAnalyses == 2

ReadmeFeatures == <<"w","e","b"," ","a","p","i"," ","d","a","t","a"," ","f","i","l","e">>

ReportShapes ==
    { PlainRepo,
      [PlainRepo EXCEPT !.name = NameAI],
      [PlainRepo EXCEPT !.stars = 6],
      [PlainRepo EXCEPT !.readme_content = Readme(ReadmeFeatures, 17)],
      [PlainRepo EXCEPT !.size = 10001, !.languages = Histogram(6), !.forks = 25,
                        !.readme_content = Readme(<<>>, 6000),
                        !.topics = SubSeq(TopicPool, 1, 6)] }

\* every shape with a recent, an old and an unparseable timestamp, and the
\* plain record at the cutoff, one hour after it and one hour before it
ReportRepos ==
    { [r EXCEPT !.updated_at = t] :
          r \in ReportShapes, t \in { Ago(29, 0), Ago(31, 0), <<"bad">> } }
    \cup { [PlainRepo EXCEPT !.updated_at = t] :
              t \in { Ago(30, 0), Ago(29, 23), Ago(30, 1) } }

\* the lists of at most n elements of S
ListsUpTo(S, n) == UNION { [1..k -> S] : k \in 0..n }

(***************************************************************************)
(* SpecReport: generate_resume_report applied to the analyses of a list of *)
(* records.                                                                *)
(***************************************************************************)
InitReport ==
    /\ hash_seed = 0
    /\ \E list \in ListsUpTo(ReportRepos, MaxAnalyses) :
           analyses = [i \in 1..Len(list) |-> analyze_project(list[i])]
    /\ report = <<>>
    /\ utc_offset \in {0, 8, 0 - 5}
    /\ repo = <<>>
    /\ analysis = <<>>
    /\ limit = 0
    /\ featured = <<>>
    /\ DEEP_ANALYSIS_AVAILABLE = FALSE
    /\ deep_report = <<>>
    /\ SchedulerOff

GenerateResumeReport ==
    /\ report = <<>>
    /\ report' = <<generate_resume_report(analyses)>>
    /\ UNCHANGED <<analyses, unitVars, schedVars, fetchVars, runVars,
                   saveVars>>

SpecReport == InitReport /\ [][GenerateResumeReport]_vars

(***************************************************************************)
(* ResumeReportGenerator: the templates.  A rendering is a list of lines,  *)
(* each a list of atoms: an atom is one character (of markup, of a name,   *)
(* of a description) or a word that holds no markup character.  The labels *)
(* and the fixed sentences of the templates are given as English words,    *)
(* and a float is the token of its value.                                  *)
(***************************************************************************)
\* data.get(key, []) of _generate_markdown_report
get(data, key) == IF key \in DOMAIN data THEN data[key] ELSE <<>>

\* **text**
bold(text) == <<"*", "*">> \o text \o <<"*", "*">>

\* ', '.join(items), and chr(10).join of the feature lines
joined(items, sep) ==
    concat([i \in 1..Len(items) |->
               (IF i > 1 THEN sep ELSE <<>>) \o <<items[i]>>])

\* a bar of int(percentage / 10) filled characters and no empty ones
bar_unpadded(count, total) ==
    [i \in 1..((10 * count) \div total) |-> "="]

\* "█" * int(percentage / 10) + "░" * (10 - int(percentage / 10)), for
\* percentage = (count / total) * 100: the floats give int(percentage / 10)
\* = floor(10 * count / total) for every count <= total below 1500
bar(count, total) ==
    [i \in 1..((10 * count) \div total) |-> "="]
    \o [i \in 1..(10 - (10 * count) \div total) |-> "."]

\* the digits of f"{(count / total) * 100:.0f}" for scale = 1 and, without
\* the point, of f"{...:.1f}" for scale = 10: the nearest integer to
\* 100 * scale * count / total, a half going to the even one (the floats
\* give it for every total below 40)
percentage(count, total, scale) ==
    LET q == (100 * scale * count) \div total
        r == (100 * scale * count) % total
    IN  IF 2 * r > total \/ (2 * r = total /\ q % 2 = 1) THEN q + 1 ELSE q

\* the lines of the block of a featured project (the project is as
\* _format_project_for_report gives it: five tags at most)
featured_block(i, project) ==
    << <<"#", "#", "#", " ", ToString(i), ".", " ">> \o project.repo.name
           \o (IF project.ai_collaboration THEN <<" ", "robot">> ELSE <<>>)
           \o (IF project.repo.is_private THEN <<" ", "lock">> ELSE <<>>),
       <<>>,
       bold(<<"Type">>) \o <<":", " ", project.project_type, " ", " ">>,
       bold(<<"Value">>) \o <<":", " ", project.business_value, " ", " ">>,
       bold(<<"Complexity">>)
           \o <<":", " ", ToString(project.complexity_score), "/", "1.0", " ", " ">>,
       bold(<<"Duration">>) \o <<":", " ", project.estimated_duration>>,
       <<>>,
       bold(<<"Description">>) \o <<":", " ">> \o project.repo.description,
       <<>>,
       bold(<<"Stack">>) \o <<":", " ">>
           \o joined(slice_to(project.tech_stack, 5), <<",", " ">>),
       <<>>,
       bold(<<"Features">>) \o <<":">> >>
    \o [k \in 1..Len(project.key_features) |->
           <<"-", " ", project.key_features[k]>>]
    \o (IF project.key_features = <<>> THEN << <<>> >> ELSE <<>>)
    \o << <<>>,
          bold(<<"Roles">>) \o <<":", " ">>
              \o joined(project.role_suggestions, <<",", " ">>),
          <<>>, <<"-", "-", "-">>, <<>> >>

\* the lines of a recently updated project
recent_block(project) ==
    << bold((IF project.ai_collaboration THEN <<"robot", " ">> ELSE <<>>)
            \o project.repo.name)
           \o <<" ", "-", " ", project.project_type, " ", " ">>,
       <<"*", ToString(project.repo.updated_at[2] \div HoursPerDay), "updated", "*",
         " ", "|", " ", "Complexity", ":", " ",
         ToString(project.complexity_score), " ", "|", " ",
         project.business_value>>,
       <<>> >>

table_head(cells) ==
    << concat([i \in 1..Len(cells) |-> <<"|", " ", cells[i], " ">>]) \o <<"|">>,
       concat([i \in 1..Len(cells) |-> <<"|", "-", "-", "-">>]) \o <<"|">> >>

_generate_markdown_report(data) ==
    LET summary      == data.summary
        featured_    == get(data, "featured_projects")
        recent       == get(data, "recent_updates")
        suggestions  == get(data, "update_suggestions")
        skill_matrix == get(data, "skill_matrix")
        stats        == data.project_stats
        types        == SelectSeq([i \in 1..(Len(project_types) + 1) |->
                                      IF i > Len(project_types) THEN "other-tool"
                                      ELSE project_types[i].type],
                                  LAMBDA t : t \in DOMAIN stats.project_types)
        metrics      == << <<"Total", ToString(summary.total_repos)>>,
                           <<"Recent", ToString(summary.recent_updates)>>,
                           <<"Significant", ToString(summary.significant_updates)>>,
                           <<"AI", ToString(summary.ai_projects)>>,
                           <<"Average", ToString(summary.avg_complexity)>> >>
    IN  << <<"#", " ", "Report">>, <<>>,
           bold(<<"Generated">>) \o <<":", " ", ToString(Today)>>, <<>>,
           <<"#", "#", " ", "Overview">>, <<>> >>
        \o table_head(<<"Metric", "Value", "Note">>)
        \o [i \in 1..Len(metrics) |->
               <<"|", " ", metrics[i][1], " ", "|", " ">> \o bold(<<metrics[i][2]>>)
               \o <<" ", "|", " ", "note", " ", "|">>]
        \o << <<>>, <<"#", "#", " ", "Featured">>, <<>>, <<"intro", ":">>, <<>> >>
        \o concat([i \in 1..Len(slice_to(featured_, 5)) |->
                      featured_block(i, featured_[i])])
        \o (IF recent = <<>> THEN <<>>
            ELSE << <<"#", "#", " ", "Recent", " ", "(", ToString(Len(recent)), ")">>,
                    <<>>, <<"intro", ":">>, <<>> >>
                 \o concat([i \in 1..Len(slice_to(recent, 10)) |->
                               recent_block(recent[i])]))
        \o (IF skill_matrix = <<>> THEN <<>>
            ELSE << <<"#", "#", " ", "Skills">>, <<>>, <<"intro", ":">>, <<>> >>
                 \o table_head(<<"Skill", "Projects", "Weight">>)
                 \o [i \in 1..Len(slice_to(skill_matrix, 15)) |->
                        <<"|", " ", skill_matrix[i][1], " ", "|", " ",
                          ToString(skill_matrix[i][2]), " ", "|", " ">>
                        \o bar(skill_matrix[i][2], summary.total_repos)
                        \o <<" ", ToString(percentage(skill_matrix[i][2],
                                                      summary.total_repos, 1)),
                             "%", " ", "|">>])
        \o (IF suggestions = <<>> THEN <<>>
            ELSE << <<"#", "#", " ", "Suggestions">>, <<>>, <<"intro", ":">>, <<>> >>
                 \o [i \in 1..Len(suggestions) |->
                        <<ToString(i), ".", " ">>
                        \o bold(<<suggestions[i].kind, " ">>
                                \o (IF suggestions[i].kind = "new-skills"
                                    THEN joined(suggestions[i].tags, <<",", " ">>)
                                    ELSE <<ToString(suggestions[i].count)>>))]
                 \o << <<>> >>)
        \* the rows of the types are in the order of their declaration here, and
        \* in the order the types were first met in the code
        \o << <<"#", "#", " ", "Statistics">>, <<>>, <<"#", "#", "#", " ", "Types">> >>
        \o [i \in 1..Len(types) |->
               <<"-", " ">> \o bold(<<types[i]>>)
               \o <<":", " ", ToString(stats.project_types[types[i]]), " ", "(",
                    ToString(percentage(stats.project_types[types[i]],
                                        summary.total_repos, 10) \div 10),
                    ".",
                    ToString(percentage(stats.project_types[types[i]],
                                        summary.total_repos, 10) % 10),
                    "%", ")">>]
        \o << <<>>, <<"#", "#", "#", " ", "Usage">> >>
        \o [i \in 1..Len(slice_to(stats.tech_stack_usage, 10)) |->
               <<"-", " ">> \o bold(<<stats.tech_stack_usage[i][1]>>)
               \o <<":", " ", ToString(stats.tech_stack_usage[i][2])>>]
        \o << <<>>, <<"#", "#", " ", "Next">>, <<>>,
              <<"#", "#", "#", " ", "Now">>,
              <<"1", ".", " ">> \o bold(<<"Update">>)
                  \o <<":", " ", ToString(Len(featured_))>>,
              <<"2", ".", " ">> \o bold(<<"Tags">>) \o <<":", " ", "advice">>,
              <<"3", ".", " ">> \o bold(<<"Role">>)
                  \o <<":", " ", "(", ToString(summary.ai_projects), "/",
                       ToString(summary.total_repos), ")">>,
              <<>>, <<"#", "#", "#", " ", "Later">>,
              <<"1", ".", " ">> \o bold(<<"Depth">>)
                  \o <<":", " ", IF skill_matrix = <<>> THEN "AI-collaboration"
                                 ELSE skill_matrix[1][1]>>,
              <<>>, <<"-", "-", "-">>, <<>>,
              <<"*", "generated", ":", " ", ToString(Today), "*">> >>

\* the markdown inside the <pre> element of the page
_generate_html_report(data) ==
    << <<"html-head">> >> \o _generate_markdown_report(data) \o << <<"html-foot">> >>

\* re.sub(r'#{1,6}\s*', '', line) on a line: the heading markers go, and the
\* spaces that follow one; opened says that the match of a marker that ends
\* the line before is still open, and takes the leading spaces too
heading_stripped(line, opened) ==
    LET kept == SelectSeq([i \in 1..Len(line) |-> i],
                    LAMBDA i :
                        /\ line[i] # "#"
                        /\ ~ /\ line[i] = " "
                             /\ \/ opened /\ \A k \in 1..(i - 1) : line[k] = " "
                                \/ \E j \in 1..(i - 1) :
                                       /\ line[j] = "#"
                                       /\ \A k \in (j + 1)..(i - 1) : line[k] = " ")
    IN  [n \in 1..Len(kept) |-> line[kept[n]]]

\* the match of a heading marker is open at the start of line i: a line
\* before it has a marker as its last character that is no space, and the
\* lines between the two hold spaces only (\s* takes the ends of lines too)
opened_before(lines, i) ==
    \E j \in 1..(i - 1) :
        /\ \E m \in 1..Len(lines[j]) :
               /\ lines[j][m] = "#"
               /\ \A k \in (m + 1)..Len(lines[j]) : lines[j][k] = " "
        /\ \A n \in (j + 1)..(i - 1) :
               \A k \in 1..Len(lines[n]) : lines[n][k] = " "

\* re.sub(r'#{1,6}\s*', '', markdown): a line at whose start a match is open
\* is joined with the line before it
strip_headings(lines) ==
    LET starts == SelectSeq([i \in 1..Len(lines) |-> i],
                            LAMBDA i : ~opened_before(lines, i))
    IN  [n \in 1..Len(starts) |->
            concat([k \in 1..((IF n < Len(starts) THEN starts[n + 1]
                               ELSE Len(lines) + 1) - starts[n]) |->
                       heading_stripped(lines[starts[n] + k - 1], k > 1)])]

\* the delimiter d is at position p of the line
at(line, p, d) ==
    /\ p + Len(d) - 1 <= Len(line)
    /\ SubSeq(line, p, p + Len(d) - 1) = d

\* re.sub of d(.*?)d by \1 on a line, from position i on: the leftmost
\* delimiter that has a closing one after it, and the nearest closing one
RECURSIVE sub_delimited(_, _, _)
sub_delimited(line, i, d) ==
    IF i > Len(line) THEN <<>>
    ELSE IF /\ at(line, i, d)
            /\ \E q \in (i + Len(d))..Len(line) : at(line, q, d)
         THEN LET q == CHOOSE q \in (i + Len(d))..Len(line) :
                           /\ at(line, q, d)
                           /\ \A r \in (i + Len(d))..(q - 1) : ~at(line, r, d)
              IN  SubSeq(line, i + Len(d), q - 1)
                  \o sub_delimited(line, q + Len(d), d)
         ELSE <<line[i]>> \o sub_delimited(line, i + 1, d)

\* the positions j of "](" after an opening bracket at i that a ")" follows
link_ends(line, i) ==
    {j \in (i + 1)..(Len(line) - 2) :
        /\ line[j] = "]"
        /\ line[j + 1] = "("
        /\ \E k \in (j + 2)..Len(line) : line[k] = ")"}

\* re.sub(r'\[(.*?)\]\(.*?\)', r'\1', line) from position i on
RECURSIVE sub_links(_, _)
sub_links(line, i) ==
    IF i > Len(line) THEN <<>>
    ELSE IF line[i] = "[" /\ link_ends(line, i) # {}
         THEN LET j == CHOOSE j \in link_ends(line, i) :
                           \A m \in link_ends(line, i) : j <= m
              IN  SubSeq(line, i + 1, j - 1)
                  \o sub_links(line,
                               1 + CHOOSE k \in (j + 2)..Len(line) :
                                       /\ line[k] = ")"
                                       /\ \A m \in (j + 2)..(k - 1) : line[m] # ")")
         ELSE <<line[i]>> \o sub_links(line, i + 1)

\* the five substitutions, in their order; after the first none of them
\* reaches over the end of a line (the atom "'" is the backtick)
_generate_text_report(data) ==
    LET lines == strip_headings(_generate_markdown_report(data))
    IN  [n \in 1..Len(lines) |->
            sub_delimited(
                sub_links(
                    sub_delimited(sub_delimited(lines[n], 1, <<"*", "*">>),
                                  1, <<"*">>),
                    1),
                1, <<"'">>)]

\* self.templates[format_type](report_data)
template(format_type, data) ==
    CASE format_type = Markdown -> _generate_markdown_report(data)
      [] format_type = Html     -> _generate_html_report(data)
      [] format_type = Text     -> _generate_text_report(data)

\* records whose descriptions are plain, or hold a character the
\* substitutions look for: "C# parser", "2*3*4", "see [doc](url) 'x'"
RenderRepos ==
    { [PlainRepo EXCEPT !.description = <<"n", "o", "t", "e", "s">>],
      [PlainRepo EXCEPT !.name = NameAI,
                        !.description = <<"C", "#", " ", "p", "a", "r", "s", "e", "r">>],
      [PlainRepo EXCEPT !.description = <<"2", "*", "3", "*", "4">>,
                        !.languages = Histogram(3)],
      [PlainRepo EXCEPT !.description =
                            <<"s", "e", "e", " ", "[", "d", "o", "c", "]", "(",
                              "u", "r", "l", ")", " ", "'", "x", "'">>,
                        !.languages = [l \in {"Go", "Rust"} |-> 700]],
      [PlainRepo EXCEPT !.updated_at = Ago(31, 0), !.is_private = TRUE,
                        !.readme_content = Readme(ReadmeFeatures, 17)] }

(***************************************************************************)
(* SpecRender: generate_report applied to the report of a list of records. *)
(***************************************************************************)
InitRender ==
    /\ hash_seed = 0
    /\ utc_offset = 0
    /\ \E list \in ListsUpTo(RenderRepos, MaxAnalyses) :
           /\ Len(list) > 0
           /\ analyses = [i \in 1..Len(list) |-> analyze_project(list[i])]
    /\ report = <<generate_resume_report(analyses)>>
    /\ UnitsIdle
    /\ SchedulerOff

\* ResumeReportGenerator.generate_report(report_data, format_type)
RenderReport ==
    /\ \E format_type \in templates :
           rendered' = << [ format_type |-> format_type,
                            outcome     |-> [ raised  |-> "",
                                              content |-> template(format_type,
                                                                   report[1]) ] ] >>
    /\ UNCHANGED <<files, fmt_idx, sent, reportVars, unitVars, schedVars,
                   fetchVars, runVars>>

SpecRender == InitRender /\ [][RenderReport]_vars

(***************************************************************************)
(* generate_deep_report.  The enrichment generators are imported at module *)
(* load; when the import fails the base report is returned.  The block     *)
(* they produce is kept as its three parts.                                *)
(***************************************************************************)
\* report['deep_analysis'] of lines 781-815
deep_analysis_block(list) ==
    [ ai_profile           |-> "ai_profile",
      philosophy           |-> "philosophy",
      architecture_summary |-> "architecture_summary" ]

\* the outcome of generate_deep_report: the exception it raises, or the report
generate_deep_report(list, available) ==
    IF generate_resume_report(list).raised # ""
    THEN generate_resume_report(list)
    ELSE IF ~available
         THEN generate_resume_report(list)
         \* report['deep_analysis'] = {...}
         ELSE [k \in DOMAIN generate_resume_report(list) \cup {"deep_analysis"} |->
                  IF k = "deep_analysis" THEN deep_analysis_block(list)
                  ELSE generate_resume_report(list)[k]]

(***************************************************************************)
(* SpecDeep: generate_deep_report applied to the analyses of a list of     *)
(* records, with the enrichment modules imported or not.                   *)
(***************************************************************************)
InitDeep ==
    /\ hash_seed = 0
    /\ \E list \in ListsUpTo(ReportShapes, MaxAnalyses) :
           analyses = [i \in 1..Len(list) |-> analyze_project(list[i])]
    /\ DEEP_ANALYSIS_AVAILABLE \in BOOLEAN
    /\ deep_report = <<>>
    /\ report = <<>>
    /\ utc_offset = 0
    /\ repo = <<>>
    /\ analysis = <<>>
    /\ limit = 0
    /\ featured = <<>>
    /\ SchedulerOff

GenerateDeepReport ==
    /\ deep_report = <<>>
    /\ deep_report' = <<generate_deep_report(analyses, DEEP_ANALYSIS_AVAILABLE)>>
    /\ UNCHANGED <<DEEP_ANALYSIS_AVAILABLE, repo, analysis, limit, featured,
                   reportVars, schedVars, fetchVars, runVars, saveVars>>

SpecDeep == InitDeep /\ [][GenerateDeepReport]_vars

(***************************************************************************)
(* SpecFeatured: _select_featured_projects applied to the analyses of a    *)
(* list of records and a limit.  The records differ in complexity, in the  *)
(* AI flag, in stars and in forks; several have the same score.            *)
(***************************************************************************)
MaxFeatured == 3

FeaturedRepos ==
    { PlainRepo,
      [PlainRepo EXCEPT !.description = <<"d","e","m","o">>],
      [PlainRepo EXCEPT !.name = NameAI],
      [PlainRepo EXCEPT !.stars = 10],
      [PlainRepo EXCEPT !.forks = 5],
      [PlainRepo EXCEPT !.stars = 60, !.forks = 25],
      [PlainRepo EXCEPT !.size = 10001, !.languages = Histogram(6)] }


InitFeatured ==
    /\ hash_seed = 0
    /\ \E list \in ListsUpTo(FeaturedRepos, MaxFeatured) :
           analyses = [i \in 1..Len(list) |-> analyze_project(list[i])]
    /\ limit \in 0..(MaxFeatured + 2)
    /\ featured = <<>>
    /\ DEEP_ANALYSIS_AVAILABLE = FALSE
    /\ deep_report = <<>>
    /\ report = <<>>
    /\ utc_offset = 0
    /\ repo = <<>>
    /\ analysis = <<>>
    /\ SchedulerOff

SelectFeaturedProjects ==
    /\ featured = <<>>
    /\ featured' = <<_select_featured_projects(analyses, limit)>>
    /\ UNCHANGED <<limit, repo, analysis, DEEP_ANALYSIS_AVAILABLE, deep_report,
                   reportVars, schedVars, fetchVars, runVars, saveVars>>

SpecFeatured == InitFeatured /\ [][SelectFeaturedProjects]_vars

(***************************************************************************)
(* The GitHub API as the program sees it.  A response is [kind, body]:     *)
(* kind "exception" is requests.get raising (timeout, connection error),   *)
(* "ok" a 200 whose body is usable, "malformed" a 200 whose body is not    *)
(* JSON (response.json() raises), "undecodable" a 200 whose content is not *)
(* base64 of UTF-8 text, "not_found" a 404, "server_error" a 500.          *)
(***************************************************************************)
raises(response) == response.kind = "exception"

status_code(response) ==
    CASE response.kind \in {"ok", "malformed", "undecodable"} -> 200
      [] response.kind = "not_found"             -> 404
      [] response.kind = "server_error"          -> 500

\* the elements of the JSON list that /user/repos answers
RepoData ==
    { [ name             |-> NameAI,
        description      |-> <<>>,
        topics           |-> <<>>,
        stargazers_count |-> 6,
        forks_count      |-> 0,
        size             |-> 100,
        updated_at       |-> Ago(29, 0),
        private          |-> FALSE ],
      [ name             |-> NamePlain,
        description      |-> <<>>,
        topics           |-> <<>>,
        stargazers_count |-> 0,
        forks_count      |-> 0,
        size             |-> 100,
        updated_at       |-> Ago(31, 0),
        private          |-> TRUE ] }

MaxBatch == 2

PageResponses ==
    { [kind |-> "exception", body |-> <<>>],
      [kind |-> "server_error", body |-> <<>>] }
    \cup { [kind |-> "ok", body |-> b] : b \in ListsUpTo(RepoData, MaxBatch) }

LanguagesResponses ==
    { [kind |-> "exception", body |-> Histogram(0)],
      [kind |-> "server_error", body |-> Histogram(0)],
      [kind |-> "ok", body |-> Histogram(1)] }

ReadmeResponses ==
    { [kind |-> k, body |-> <<>>] :
        k \in {"exception", "malformed", "undecodable", "not_found",
              "server_error"} }
    \cup { [kind |-> "ok", body |-> ReadmeFeatures] }

(***************************************************************************)
(* get_readme_content.  A call is [state, attempt, log, sleeps, result]:   *)
(* attempt is the loop variable, log the kinds of the responses to the     *)
(* requests issued so far, sleeps the arguments of the time.sleep calls    *)
(* made so far, state "running", "returned" or "raised", and result the    *)
(* string returned.                                                        *)
(***************************************************************************)
max_retries == 3

returns(c, response, text) ==
    [c EXCEPT !.log = Append(@, response.kind), !.state = "returned", !.result = text]

\* the except branch that sleeps and continues without a bound on attempt
readme_retry_unbounded(c, response) ==
    [c EXCEPT !.log = Append(@, response.kind),
              !.sleeps = Append(@, 1 * (c.attempt + 1)),
              !.attempt = @ + 1]

\* the except branch of the loop body
readme_retry(c, response) ==
    IF c.attempt < max_retries - 1
    THEN [c EXCEPT !.log = Append(@, response.kind),
                   !.sleeps = Append(@, 1 * (c.attempt + 1)),
                   !.attempt = @ + 1]
    ELSE returns(c, response, <<>>)

\* the else branch of the status test that goes round the loop again
readme_other_status_retried(c, response) == readme_retry(c, response)

\* the else branch of the status test
readme_other_status(c, response) == returns(c, response, <<>>)

\* one pass through the body of the for loop
readme_attempt(c, response) ==
    IF raises(response) THEN readme_retry(c, response)
    ELSE IF status_code(response) = 200
         THEN IF response.kind = "malformed"
              THEN readme_retry(c, response)
              ELSE returns(c, response,
                           IF response.kind = "ok" THEN response.body ELSE <<>>)
    ELSE IF status_code(response) = 404 THEN returns(c, response, <<>>)
    ELSE readme_other_status(c, response)

(***************************************************************************)
(* get_user_repos and run_analysis.                                        *)
(***************************************************************************)
per_page == 100

Repository(repo_data, langs, readme) ==
    [ name           |-> repo_data.name,
      description    |-> repo_data.description,
      languages      |-> langs,
      topics         |-> repo_data.topics,
      stars          |-> repo_data.stargazers_count,
      forks          |-> repo_data.forks_count,
      size           |-> repo_data.size,
      updated_at     |-> repo_data.updated_at,
      is_private     |-> repo_data.private,
      readme_content |-> Readme(readme, Len(readme)) ]

\* thresholds at their defaults; featured_projects is every analysis when
\* there are at most five
_should_send_notification(report_data, list) ==
    \/ report_data.summary.recent_updates >= 1
    \/ report_data.summary.significant_updates >= 1
    \/ SelectSeq(list, holds_high_value) # <<>>

\* the locals of a run_analysis call and of the calls it makes, fresh
FreshLocals ==
    /\ result' = <<>>
    /\ analyses' = <<>>
    /\ report' = <<>>
    /\ page' = 1
    /\ batch' = <<>>
    /\ idx' = 0
    /\ repos' = <<>>
    /\ languages' = Histogram(0)
    /\ call' = NoCall
    /\ fmt_idx' = 0
    /\ rendered' = <<>>

\* run_analysis is entered with force_notification = f; the files it will
\* write bear a new timestamp
EnterRunAnalysis(f) ==
    /\ in_flight' = in_flight + 1
    /\ force' = f
    /\ FreshLocals
    /\ files' = NoFiles
    /\ sent' = {}
    /\ run_pc' = IF monitor THEN "list" ELSE "return"

\* an exception reaches the except clause of run_analysis
ReturnNone ==
    /\ run_pc' = "return"
    /\ result' = <<>>

\* get_user_repos: the request for one page of the repository list
ListPage(response) ==
    /\ run_pc = "list"
    /\ IF raises(response)
       THEN ReturnNone /\ UNCHANGED <<batch, idx>>
       ELSE IF status_code(response) # 200 \/ response.body = <<>>
       THEN run_pc' = "analyze" /\ UNCHANGED <<batch, idx, result>>
       ELSE /\ batch' = response.body
            /\ idx' = 1
            /\ run_pc' = "languages"
            /\ UNCHANGED result
    /\ UNCHANGED <<page, repos, languages, call, analyses, report, force,
                   unitVars, schedVars, saveVars>>

\* get_repo_languages for batch_repos[idx]
GetRepoLanguages(response) ==
    /\ run_pc = "languages"
    /\ IF raises(response)
       THEN ReturnNone /\ UNCHANGED <<languages, call>>
       ELSE /\ languages' = IF status_code(response) = 200
                            THEN response.body ELSE Histogram(0)
            /\ call' = [NoCall EXCEPT !.state = "running"]
            /\ run_pc' = "readme"
            /\ UNCHANGED result
    /\ UNCHANGED <<page, batch, idx, repos, analyses, report, force,
                   unitVars, schedVars, saveVars>>

\* get_readme_content: one request and what the loop body does with it
GetReadmeContent(response) ==
    /\ run_pc = "readme"
    /\ call.state = "running"
    /\ call' = readme_attempt(call, response)
    /\ UNCHANGED <<page, batch, idx, repos, languages, runVars, reportVars,
                   unitVars, schedVars, saveVars>>

\* get_readme_content has returned: the Repository is built and appended,
\* the loops go on or end
AppendRepository ==
    /\ run_pc = "readme"
    /\ call.state = "returned"
    /\ repos' = Append(repos, Repository(batch[idx], languages, call.result))
    /\ call' = NoCall
    /\ IF idx < Len(batch)
       THEN /\ idx' = idx + 1
            /\ run_pc' = "languages"
            /\ UNCHANGED page
       ELSE /\ page' = page + 1
            /\ run_pc' = IF Len(batch) < per_page THEN "analyze" ELSE "list"
            /\ UNCHANGED idx
    /\ UNCHANGED <<batch, languages, force, result, reportVars,
                   unitVars, schedVars, saveVars>>

(***************************************************************************)
(* SpecList: get_user_repos over pages of up to per_page entries.  The     *)
(* entry i of page p is named p-i; the languages request of an entry is    *)
(* answered or fails, and its README is absent.                            *)
(***************************************************************************)
MaxPages == 2

\* the n entries of page p of the list
page_of(p, n) ==
    [i \in 1..n |->
        [ name             |-> <<ToString(p), "-", ToString(i)>>,
          description      |-> <<>>,
          topics           |-> <<>>,
          stargazers_count |-> 0,
          forks_count      |-> 0,
          size             |-> 100,
          updated_at       |-> Ago(29, 0),
          private          |-> FALSE ]]

\* the answers to the request for page p: a failure, a 500, an empty list, a
\* short page, a full page (of the first MaxPages pages only)
ListResponses(p) ==
    { [kind |-> "exception", body |-> <<>>],
      [kind |-> "server_error", body |-> <<>>],
      [kind |-> "ok", body |-> <<>>] }
    \cup { [kind |-> "ok", body |-> page_of(p, n)] :
             n \in {m \in {1, per_page - 1, per_page} :
                       m = per_page => p <= MaxPages} }

\* run_analysis has called get_user_repos
InitList ==
    /\ hash_seed = 0
    /\ utc_offset = 0
    /\ sched_pc = "off"
    /\ due = {}
    /\ pending = {}
    /\ job = "none"
    /\ in_flight = 1
    /\ monitor = TRUE
    /\ config = default_config
    /\ run_pc = "list"
    /\ force = FALSE
    /\ result = <<>>
    /\ analyses = <<>>
    /\ report = <<>>
    /\ FetchIdle
    /\ SaveIdle
    /\ UnitsIdle

NextList ==
    \/ \E response \in ListResponses(page) : ListPage(response)
    \/ \E response \in { [kind |-> "exception", body |-> Histogram(0)],
                          [kind |-> "ok", body |-> Histogram(1)] } :
           GetRepoLanguages(response)
    \/ GetReadmeContent([kind |-> "not_found", body |-> <<>>])
    \/ AppendRepository

SpecList == InitList /\ [][NextList]_vars

\* run_analysis: the loop over repos
AnalyzeProjects ==
    /\ run_pc = "analyze"
    /\ analyses' = [i \in 1..Len(repos) |-> analyze_project(repos[i])]
    /\ run_pc' = "report"
    /\ UNCHANGED <<report, force, result, fetchVars, unitVars, schedVars,
                   saveVars>>

\* run_analysis: generate_resume_report, which may raise
GenerateReport ==
    /\ run_pc = "report"
    /\ report' = <<generate_resume_report(analyses)>>
    /\ IF generate_resume_report(analyses).raised # ""
       THEN ReturnNone
       ELSE run_pc' = "save" /\ UNCHANGED result
    /\ UNCHANGED <<analyses, force, fetchVars, unitVars, schedVars,
                   saveVars>>

\* generate_report fails for a selector that is not a key of templates
generate_report_lowercased(report_data, format_type) ==
    IF lower(format_type) \notin templates
    THEN [ raised |-> "ValueError", content |-> <<>> ]
    ELSE [ raised |-> "", content |-> <<lower(format_type), report_data>> ]

\* ResumeReportGenerator.generate_report: the exception it raises, or the
\* content, which is the rendering of report_data by the template chosen
generate_report(report_data, format_type) ==
    IF format_type \notin templates
    THEN [ raised |-> "ValueError", content |-> <<>> ]
    ELSE [ raised |-> "", content |-> <<format_type, report_data>> ]

\* the selector the loop of _save_analysis_data is at
fmt == config.report_formats[fmt_idx]

\* _save_analysis_data: open(json_file, 'w') creates or truncates the file
OpenJsonFile ==
    /\ run_pc = "save"
    /\ files' = [files EXCEPT ![json_file] = "empty"]
    /\ run_pc' = "dump"
    /\ UNCHANGED <<fmt_idx, rendered, sent, force, result, reportVars,
                   fetchVars, unitVars, schedVars>>

\* _save_analysis_data: json.dump into the open file; the file is closed
DumpJson ==
    /\ run_pc = "dump"
    /\ files' = [files EXCEPT ![json_file] = "complete"]
    /\ fmt_idx' = 1
    /\ run_pc' = IF Len(config.report_formats) = 0 THEN "notify" ELSE "render"
    /\ UNCHANGED <<rendered, sent, force, result, reportVars, fetchVars,
                   unitVars, schedVars>>

\* _save_analysis_data: generate_report for fmt, which may raise, then the
\* open(filepath, 'w') of save_report
RenderAndOpenReportFile ==
    /\ run_pc = "render"
    /\ rendered' = << [ format_type |-> fmt,
                        outcome     |-> generate_report(report[1], fmt) ] >>
    \* an exception of generate_report, or the KeyError of extensions[format_type]
    \* in save_report, ends the run
    /\ IF \/ generate_report(report[1], fmt).raised # ""
          \/ fmt \notin {Markdown, Html, Text}
       THEN ReturnNone /\ UNCHANGED files
       ELSE /\ files' = [files EXCEPT
                            ![save_report_path(report_file(fmt), fmt)] = "empty"]
            /\ run_pc' = "write"
            /\ UNCHANGED result
    /\ UNCHANGED <<fmt_idx, sent, force, reportVars, fetchVars, unitVars,
                   schedVars>>

\* save_report: f.write(content); the file is closed; the loop goes on
WriteReportFile ==
    /\ run_pc = "write"
    /\ files' = [files EXCEPT
                    ![save_report_path(report_file(fmt), fmt)] = "complete"]
    /\ fmt_idx' = fmt_idx + 1
    /\ run_pc' = IF fmt_idx = Len(config.report_formats) THEN "notify" ELSE "render"
    /\ UNCHANGED <<rendered, sent, force, result, reportVars, fetchVars,
                   unitVars, schedVars>>

\* what _send_notifications hands the channels that are enabled (with their
\* credentials set).  The attachments are the files named report_file(fmt) of
\* a timestamp taken anew that exist: same_second says that the clock still
\* shows the second _save_analysis_data took its timestamp in
notifications(same_second) ==
    { [ channel     |-> c,
        attachments |->
            SelectSeq(<<report_file(Markdown), report_file(Html)>>,
                      LAMBDA f : /\ same_second
                                 /\ f \in DOMAIN files
                                 /\ files[f] # "absent") ] :
      c \in {ch \in {"email"} : config.email_enabled} }
    \cup { [ channel |-> c, attachments |-> <<>> ] :
             c \in {ch \in {"webhook"} : config.webhook_enabled} }

\* run_analysis: the notification test, _send_notifications, return report_data
SendNotifications ==
    /\ run_pc = "notify"
    /\ _should_send_notification(report[1], analyses) \/ force
    /\ \E same_second \in BOOLEAN : sent' = notifications(same_second)
    /\ run_pc' = "return"
    /\ result' = report
    /\ UNCHANGED <<files, fmt_idx, rendered, force, reportVars, fetchVars,
                   unitVars, schedVars>>

\* run_analysis: the notification test fails, return report_data
SkipNotifications ==
    /\ run_pc = "notify"
    /\ ~(_should_send_notification(report[1], analyses) \/ force)
    /\ run_pc' = "return"
    /\ result' = report
    /\ UNCHANGED <<force, reportVars, fetchVars, unitVars, schedVars,
                   saveVars>>

(***************************************************************************)
(* run_scheduler.  schedule.run_pending runs each runnable job by calling  *)
(* its function in the thread of the loop, so that the loop goes on only   *)
(* when the function has returned.                                         *)
(***************************************************************************)
Jobs == {"daily", "weekly", "interval"}

\* run_pending may call other than on return (jobs run in threads)
JobMayStart_threaded == TRUE

\* run_pending calls the next job when the one before has returned
JobMayStart == run_pc = "idle"

\* setup_schedule, then the initial run_analysis()
RunScheduler ==
    /\ sched_pc = "boot"
    /\ sched_pc' = "initial"
    /\ job' = "initial"
    /\ EnterRunAnalysis(FALSE)
    /\ UNCHANGED <<due, pending, unitVars, envVars>>

\* the next run time of job j passes
Tick(j) ==
    /\ sched_pc \in {"initial", "sleep", "pending"}
    /\ j \notin due
    /\ due' = due \cup {j}
    /\ UNCHANGED <<sched_pc, pending, job, in_flight, runVars, fetchVars,
                   reportVars, unitVars, envVars, saveVars>>

\* schedule.run_pending: the runnable jobs are collected
RunPending ==
    /\ sched_pc = "sleep"
    /\ pending' = due
    /\ sched_pc' = "pending"
    /\ UNCHANGED <<due, job, in_flight, runVars, fetchVars, reportVars,
                   unitVars, envVars, saveVars>>

\* schedule.run_pending: job j is run; the weekly job forces notification
RunJob(j) ==
    /\ sched_pc = "pending"
    /\ j \in pending
    /\ JobMayStart
    /\ pending' = pending \ {j}
    /\ job' = j
    /\ EnterRunAnalysis(j = "weekly")
    /\ UNCHANGED <<sched_pc, due, unitVars, envVars>>

\* run_analysis returns to its caller, which drops the value; the job that
\* ran gets its next run time
ReturnFromRun ==
    /\ run_pc = "return"
    /\ run_pc' = "idle"
    /\ in_flight' = in_flight - 1
    /\ FreshLocals
    /\ due' = due \ {job}
    /\ job' = "none"
    /\ sched_pc' = CASE sched_pc = "initial" -> "sleep"
                      [] sched_pc = "once"    -> "exited"
                      [] OTHER                -> sched_pc
    /\ force' = FALSE
    /\ UNCHANGED <<pending, unitVars, envVars, files, sent>>

\* schedule.run_pending returns; time.sleep(60)
Sleep ==
    /\ sched_pc = "pending"
    /\ pending = {}
    /\ run_pc = "idle"
    /\ sched_pc' = "sleep"
    /\ UNCHANGED <<due, pending, job, in_flight, runVars, fetchVars,
                   reportVars, unitVars, envVars, saveVars>>

\* KeyboardInterrupt: no except Exception clause catches it, the call in
\* progress is unwound and the loop is left
Interrupt ==
    /\ sched_pc \in {"initial", "sleep", "pending", "once"}
    /\ sched_pc' = "stopped"
    /\ run_pc' = "idle"
    /\ in_flight' = 0
    /\ job' = "none"
    /\ pending' = {}
    /\ FreshLocals
    /\ force' = FALSE
    /\ UNCHANGED <<due, unitVars, envVars, files, sent>>

Init ==
    /\ sched_pc = "boot"
    /\ monitor \in BOOLEAN
    /\ config = default_config
    /\ utc_offset = 0
    /\ hash_seed = 0
    /\ due = {}
    /\ pending = {}
    /\ job = "none"
    /\ in_flight = 0
    /\ run_pc = "idle"
    /\ force = FALSE
    /\ result = <<>>
    /\ FetchIdle
    /\ SaveIdle
    /\ analyses = <<>>
    /\ report = <<>>
    /\ UnitsIdle

Next ==
    \/ RunScheduler
    \/ \E j \in Jobs : Tick(j)
    \/ RunPending
    \/ \E j \in Jobs : RunJob(j)
    \/ Sleep
    \/ Interrupt
    \/ \E response \in PageResponses : ListPage(response)
    \/ \E response \in LanguagesResponses : GetRepoLanguages(response)
    \/ \E response \in ReadmeResponses : GetReadmeContent(response)
    \/ AppendRepository
    \/ AnalyzeProjects
    \/ GenerateReport
    \/ OpenJsonFile
    \/ DumpJson
    \/ RenderAndOpenReportFile
    \/ WriteReportFile
    \/ SendNotifications
    \/ SkipNotifications
    \/ ReturnFromRun

Spec == Init /\ [][Next]_vars

(***************************************************************************)
(* SpecOnce: main with --once, with or without --no-notification, under a  *)
(* configuration file that sets report_formats and the channels.           *)
(***************************************************************************)

ReportFormatLists ==
    { <<Markdown, Html>>, <<Text>>, << <<"p","d","f">>, Markdown>>, <<Html, <<"H","T","M","L">>>>,
      << <<>> >>, <<<<"M","a","r","k","d","o","w","n">>>> }

Configurations ==
    { [ report_formats  |-> l,
        email_enabled   |-> ch[1],
        webhook_enabled |-> ch[2] ] :
      l \in ReportFormatLists,
      ch \in { <<TRUE, FALSE>>, <<FALSE, TRUE>>, <<FALSE, FALSE>> } }

InitOnce ==
    /\ sched_pc = "main"
    /\ monitor \in BOOLEAN
    /\ config \in Configurations
    /\ utc_offset = 0
    /\ hash_seed = 0
    /\ due = {}
    /\ pending = {}
    /\ job = "none"
    /\ in_flight = 0
    /\ run_pc = "idle"
    /\ force = FALSE
    /\ result = <<>>
    /\ FetchIdle
    /\ SaveIdle
    /\ analyses = <<>>
    /\ report = <<>>
    /\ UnitsIdle

\* main: scheduler.run_once(notification=not args.no_notification)
RunOnce(no_notification) ==
    /\ sched_pc = "main"
    /\ sched_pc' = "once"
    /\ job' = "once"
    /\ EnterRunAnalysis(~no_notification)
    /\ UNCHANGED <<due, pending, unitVars, envVars>>

NextOnce ==
    \/ \E no_notification \in BOOLEAN : RunOnce(no_notification)
    \/ Interrupt
    \/ \E response \in PageResponses : ListPage(response)
    \/ \E response \in LanguagesResponses : GetRepoLanguages(response)
    \/ \E response \in ReadmeResponses : GetReadmeContent(response)
    \/ AppendRepository
    \/ AnalyzeProjects
    \/ GenerateReport
    \/ OpenJsonFile
    \/ DumpJson
    \/ RenderAndOpenReportFile
    \/ WriteReportFile
    \/ SendNotifications
    \/ SkipNotifications
    \/ ReturnFromRun

SpecOnce == InitOnce /\ [][NextOnce]_vars

(***************************************************************************)
(* Claims about the classifier, checked under SpecClassify.                *)
(***************************************************************************)
\* the records that differ from r in one metric only, which is larger
RaisedVariants(r) ==
    { [r EXCEPT !.size = v] : v \in {x \in MetricValues.size : x > r.size} }
    \cup { [r EXCEPT !.languages = Histogram(k)] :
             k \in {x \in MetricValues.languages : x > Cardinality(DOMAIN r.languages)} }
    \cup { [r EXCEPT !.stars = v] : v \in {x \in MetricValues.stars : x > r.stars} }
    \cup { [r EXCEPT !.forks = v] : v \in {x \in MetricValues.forks : x > r.forks} }
    \cup { [r EXCEPT !.readme_content = Readme(r.readme_content.text, n)] :
             n \in {x \in MetricValues.readme : x > readme_len(r)} }
    \cup { [r EXCEPT !.topics = SubSeq(TopicPool, 1, k)] :
             k \in {x \in MetricValues.topics : x > Len(r.topics)} }

\* C1: the complexity score of every record lies in [0,1], and raising one
\* metric (size, language count, stars, forks, README length, topic count)
\* with the others fixed never lowers the score.
C1_ScoreBoundedMonotone ==
    analysis # <<>> =>
        LET a == analysis[1] IN
        /\ fle(Literal.l0_0, a.complexity_score)
        /\ fle(a.complexity_score, Literal.l1_0)
        /\ \A r2 \in RaisedVariants(a.repo) :
               fle(a.complexity_score, _calculate_complexity(r2))

\* C1 witness: a scored record one of whose raised variants scores strictly more.
C1_Witness ==
    /\ analysis # <<>>
    /\ fgt(analysis[1].complexity_score, Literal.l0_0)
    /\ \E r2 \in RaisedVariants(repo) :
           fgt(_calculate_complexity(r2), analysis[1].complexity_score)

\* the record of the end-to-end scenario: {Python: 5000}, 60 stars, 25 forks,
\* a README of 6000 characters, 6 topics, a name containing "ai"
IsScenarioRecord(r) ==
    /\ DOMAIN r.languages = {"Python"}
    /\ r.languages["Python"] = 5000
    /\ r.stars = 60
    /\ r.forks = 25
    /\ readme_len(r) = 6000
    /\ Len(r.topics) = 6
    /\ contains(r.name, <<"a","i">>)

\* C2 as stated: the scenario record is classified with complexity 1.0, AI flag
\* true, business value high/AI-complex and duration 2-6 months.
C2_Original ==
    (analysis # <<>> /\ IsScenarioRecord(repo)) =>
        /\ analysis[1].complexity_score = Literal.l1_0
        /\ analysis[1].ai_collaboration
        /\ analysis[1].business_value = "high/AI-complex"
        /\ analysis[1].estimated_duration = "2-6 months"

\* C2 amended: the scenario record has the AI flag true and a complexity of at
\* most 0.7 whatever its size, so it is never high/AI-complex; with size above
\* 10000 its complexity is 0.7, its business value medium-high/AI-applied and
\* its duration 1-3 months.
C2_ScenarioRecord ==
    (analysis # <<>> /\ IsScenarioRecord(repo)) =>
        /\ analysis[1].ai_collaboration
        /\ fle(analysis[1].complexity_score, Literal.l0_7)
        /\ analysis[1].business_value # "high/AI-complex"
        /\ analysis[1].estimated_duration # "2-6 months"
        /\ repo.size > 10000 =>
               /\ analysis[1].complexity_score = Literal.l0_7
               /\ analysis[1].business_value = "medium-high/AI-applied"
               /\ analysis[1].estimated_duration = "1-3 months"

\* C2 witness: the scenario record with the largest size band, classified.
C2_Witness ==
    /\ analysis # <<>>
    /\ IsScenarioRecord(repo)
    /\ repo.size > 10000

BusinessValueTiers ==
    { "high/AI-complex", "medium-high/AI-applied", "medium-high/complex-technical",
      "medium/AI-tool", "medium/practical-tool", "baseline/learning-project" }

\* C3: the business-value tier is decided by (complexity, AI flag) alone, by the
\* ordered list: >0.7 and AI, >0.5 and AI, >0.7, AI, >0.4, otherwise; it is one
\* of the six tiers.  Each tier is stated by the region of inputs it covers.
C3_TierDecisionList ==
    analysis # <<>> =>
        LET c  == analysis[1].complexity_score
            ai == analysis[1].ai_collaboration
            v  == analysis[1].business_value
        IN  /\ v \in BusinessValueTiers
            /\ (v = "high/AI-complex") <=> (fgt(c, Literal.l0_7) /\ ai)
            /\ (v = "medium-high/AI-applied")
                   <=> (fgt(c, Literal.l0_5) /\ ~fgt(c, Literal.l0_7) /\ ai)
            /\ (v = "medium-high/complex-technical") <=> (fgt(c, Literal.l0_7) /\ ~ai)
            /\ (v = "medium/AI-tool") <=> (~fgt(c, Literal.l0_5) /\ ai)
            /\ (v = "medium/practical-tool")
                   <=> (fgt(c, Literal.l0_4) /\ ~fgt(c, Literal.l0_7) /\ ~ai)
            /\ (v = "baseline/learning-project") <=> (~fgt(c, Literal.l0_4) /\ ~ai)

\* C3 witness: a record without the AI flag and with complexity above 0.7,
\* which only the third rule of the list matches.
C3_Witness ==
    /\ analysis # <<>>
    /\ ~analysis[1].ai_collaboration
    /\ fgt(analysis[1].complexity_score, Literal.l0_7)
    /\ analysis[1].business_value = "medium-high/complex-technical"

\* the float 0.71 of the boundary example
F0_71 == <<190589173, 408021888>>

\* C4 as stated: complexity exactly 0.70 without the AI flag is
\* medium-high/complex-technical, and complexity 0.71 with the AI flag is
\* high/AI-complex.
C4_Original ==
    analysis # <<>> =>
        /\ (analysis[1].complexity_score = Literal.l0_7 /\ ~analysis[1].ai_collaboration)
               => analysis[1].business_value = "medium-high/complex-technical"
        /\ business_value_of(F0_71, TRUE) = "high/AI-complex"

\* C4 amended: complexity exactly 0.70 without the AI flag is
\* medium/practical-tool (the comparison with 0.7 is strict), and complexity
\* 0.71 with the AI flag is high/AI-complex.
C4_TierBoundaries ==
    analysis # <<>> =>
        /\ (analysis[1].complexity_score = Literal.l0_7 /\ ~analysis[1].ai_collaboration)
               => analysis[1].business_value = "medium/practical-tool"
        /\ business_value_of(F0_71, TRUE) = "high/AI-complex"

\* C4 witness: a classified record of complexity exactly 0.70 without the AI flag.
C4_Witness ==
    /\ analysis # <<>>
    /\ analysis[1].complexity_score = Literal.l0_7
    /\ ~analysis[1].ai_collaboration

(***************************************************************************)
(* Claims about the aggregator, checked under SpecReport.                  *)
(***************************************************************************)
\* C5: over an empty list of classifications generate_resume_report does not
\* fail: it returns a report with total 0 and empty lists.
C5_EmptyCollectionReport ==
    (report # <<>> /\ Len(analyses) = 0) =>
        /\ report[1].raised = ""
        /\ report[1].summary.total_repos = 0
        /\ report[1].recent_updates = <<>>

\* the number of elements of list that satisfy the significance rule
RECURSIVE CountSignificant(_)
CountSignificant(list) ==
    IF Len(list) = 0 THEN 0
    ELSE (IF _is_significant_update(Head(list)) THEN 1 ELSE 0)
         + CountSignificant(Tail(list))

\* C6: every project of the input, one whose timestamp does not parse included,
\* is counted in significant_updates iff complexity > 0.5 or AI flag or
\* stars > 5 or more than 3 key features.
C6_SignificantIndependentOfRecency ==
    (report # <<>> /\ report[1].raised = "") =>
        report[1].summary.significant_updates = CountSignificant(analyses)

(***************************************************************************)
(* Claims about the fetch and the scheduler, checked under Spec.           *)
(***************************************************************************)
\* C7: once a page of repositories has been received, no failure of a
\* supplementary fetch aborts the run: run_analysis returns a report, and
\* get_user_repos has built a record for every repository of the page.
C7_NoFetchFailureAbortsRun ==
    run_pc = "return" /\ batch # <<>>
        => /\ result # <<>>
           /\ Len(repos) = Len(batch)

\* C8: whatever the API answers, get_readme_content issues at most 3
\* requests, sleeps strictly longer before each further attempt, never
\* raises and returns a string; a 404 is the last response of its call, which
\* returns the empty string.
C8_ReadmeCallBounded ==
    /\ Len(call.log) <= 3
    /\ \A i \in 1..(Len(call.sleeps) - 1) : call.sleeps[i] < call.sleeps[i + 1]
    /\ call.state \in {"idle", "running", "returned"}
    /\ call.state = "running" => Len(call.sleeps) = Len(call.log)
    /\ call.state = "returned" => call.result \in {<<>>, ReadmeFeatures}
    /\ \A i \in 1..Len(call.log) :
           call.log[i] = "not_found"
               => /\ i = Len(call.log)
                  /\ call.state = "returned"
                  /\ call.result = <<>>

\* three requests that all raised, with the two sleeps between them
C8_Witness ==
    /\ call.state = "returned"
    /\ call.log = <<"exception", "exception", "exception">>
    /\ call.sleeps = <<1, 2>>

\* C9 as stated: a call that ends on a network error or on a 5xx response
\* has used up its retries.
C9_Original ==
    /\ call.state = "returned"
    /\ Len(call.log) > 0
    /\ call.log[Len(call.log)] \in {"exception", "server_error"}
    => Len(call.log) = max_retries

\* C9: a network error on the README fetch is retried after a sleep, and the
\* call gives the empty string only when the third request has raised; a 5xx
\* response is not retried, the call gives the empty string at once; neither
\* is raised to the caller.
C9_TransientRetry ==
    /\ call.state \in {"idle", "running", "returned"}
    /\ call.state = "running"
           => /\ Len(call.sleeps) = Len(call.log)
              /\ \A i \in 1..Len(call.log) : call.log[i] \in {"exception", "malformed"}
    /\ call.state = "returned" /\ Len(call.log) > 0
       /\ call.log[Len(call.log)] = "exception"
           => /\ Len(call.log) = 3
              /\ call.sleeps = <<1, 2>>
              /\ call.result = <<>>
    /\ \A i \in 1..Len(call.log) :
           call.log[i] = "server_error"
               => /\ i = Len(call.log)
                  /\ call.state = "returned"
                  /\ call.result = <<>>

\* a network error retried after a sleep, then a 5xx that ends the call
C9_Witness ==
    /\ call.state = "returned"
    /\ call.log = <<"exception", "server_error">>
    /\ call.sleeps = <<1>>
    /\ call.result = <<>>

\* C10: at most one run_analysis call is in progress at any time, the
\* initial run and the runs of the daily, weekly and interval jobs included.
C10_OneRunAtATime ==
    /\ in_flight \in {0, 1}
    /\ in_flight = 1 <=> run_pc # "idle"
    /\ run_pc # "idle" => job \in Jobs \cup {"initial"}

\* the daily job's run is in the fetch while the weekly job waits its turn
C10_Witness ==
    /\ in_flight = 1
    /\ job = "daily"
    /\ run_pc = "readme"
    /\ "weekly" \in pending

(***************************************************************************)
(* Claims about the save phase, the renderer and the entry points.         *)
(***************************************************************************)
\* C11: report file writes are atomic: when the process has been
\* interrupted, or a run has failed, every report file on disk is absent or
\* holds its complete content; none is left empty or partly written.
C11_AtomicFileWrites ==
    sched_pc = "stopped" \/ (run_pc = "return" /\ result = <<>>)
        => \A f \in DOMAIN files : files[f] \in {"absent", "complete"}

\* C12: generate_report raises ValueError for every selector other than
\* exactly 'markdown', 'html' and 'text' (the empty string and the case
\* variants included) and then gives no content and no file; for the three it
\* renders by the very template asked for.
C12_UnsupportedFormatRejected ==
    rendered # <<>> =>
        /\ rendered[1].format_type \notin {Markdown, Html, Text}
               <=> rendered[1].outcome.raised = "ValueError"
        /\ rendered[1].outcome.raised = "ValueError"
               => /\ rendered[1].outcome.content = <<>>
                  /\ run_pc = "return"
                  /\ result = <<>>
                  /\ \A t \in templates \ {l \in templates : \E i \in 1..(fmt_idx - 1) :
                                                config.report_formats[i] = l} :
                         files[save_report_path(report_file(t), t)] = "absent"
        /\ rendered[1].outcome.raised = ""
               => rendered[1].outcome.content[1] = rendered[1].format_type

\* 'Markdown' with a capital is rejected
C12_Witness ==
    /\ rendered # <<>>
    /\ rendered[1].format_type = <<"M","a","r","k","d","o","w","n">>
    /\ rendered[1].outcome.raised = "ValueError"
    /\ run_pc = "return"

\* C13: an unsupported selector in report_formats fails its own render call
\* only: once a report has been generated, the run returns it, and every
\* supported format of report_formats has been rendered and saved.
C13_UnsupportedFormatIsLocal ==
    run_pc = "return" /\ report # <<>> /\ report[1].raised = ""
        => /\ result = report
           /\ \A i \in 1..Len(config.report_formats) :
                  config.report_formats[i] \in templates
                      => files[save_report_path(report_file(config.report_formats[i]),
                                                config.report_formats[i])] = "complete"

\* C14: with no token configured, no fetch and no analysis is attempted and
\* the process ends: the scheduling loop is not entered.
C14_NoCredentialExits ==
    ~monitor =>
        /\ run_pc \in {"idle", "return"}
        /\ sched_pc \in {"boot", "initial", "stopped"}

\* C18: a run started with --no-notification sends on no channel.
C18_NoNotificationFlag ==
    sched_pc = "once" /\ ~force => sent = {}

(***************************************************************************)
(* Further claims about the classifier, checked under SpecClassify.        *)
(***************************************************************************)
\* the duration buckets, shortest first
DurationBuckets == <<"days", "1-2 weeks", "2-6 weeks", "1-3 months", "2-6 months">>

\* C20: the duration estimate is the bucket of the highest of the thresholds
\* 0.2, 0.4, 0.6, 0.8 that the complexity is strictly above ("days" when it
\* is above none), so that it never decreases as the complexity grows, and a
\* complexity equal to a threshold gets the bucket below it.
C20_DurationBuckets ==
    analysis # <<>> =>
        /\ analysis[1].estimated_duration =
               DurationBuckets[1 + Cardinality({t \in {Literal.l0_2, Literal.l0_4, Literal.l0_6, Literal.l0_8} :
                                    fgt(analysis[1].complexity_score, t)})]
        /\ analysis[1].complexity_score = Literal.l0_2 => analysis[1].estimated_duration = "days"
        /\ analysis[1].complexity_score = Literal.l0_4 => analysis[1].estimated_duration = "1-2 weeks"
        /\ analysis[1].complexity_score = Literal.l0_6 => analysis[1].estimated_duration = "2-6 weeks"
        /\ analysis[1].complexity_score = Literal.l0_8 => analysis[1].estimated_duration = "1-3 months"

\* a record whose complexity is exactly 0.6
C20_Witness ==
    /\ analysis # <<>>
    /\ analysis[1].complexity_score = Literal.l0_6
    /\ analysis[1].estimated_duration = "2-6 weeks"

(***************************************************************************)
(* Further claims about the aggregator, checked under SpecReport.          *)
(***************************************************************************)
\* the instant of now - window on the UTC clock
CutoffInstant == Today * HoursPerDay - days_back * HoursPerDay

\* the update of a is an instant strictly after now - window
UpdatedAfterCutoff(a) ==
    /\ parses(a.repo.updated_at)
    /\ a.repo.updated_at[2] > CutoffInstant

\* C16: a project is in the recent set iff its last update is an instant
\* strictly after now - 30 days: 29 days ago is recent, 31 days ago is not,
\* the cutoff instant itself is not.
C16_RecentIffAfterCutoff ==
    report # <<>> /\ report[1].raised = ""
        => report[1].recent_updates = SelectSeq(analyses, UpdatedAfterCutoff)

\* the sum of the values of a histogram
RECURSIVE SumOfValues(_)
SumOfValues(h) ==
    IF DOMAIN h = {} THEN 0
    ELSE h[CHOOSE k \in DOMAIN h : TRUE]
         + SumOfValues([j \in DOMAIN h \ {CHOOSE k \in DOMAIN h : TRUE} |-> h[j]])

\* C17: in every report produced, the values of the project-type histogram
\* sum to summary.total_repos, which is the number of analyses given.
C17_TypeHistogramSums ==
    report # <<>> /\ report[1].raised = ""
        => /\ SumOfValues(report[1].project_stats.project_types)
                  = report[1].summary.total_repos
           /\ report[1].summary.total_repos = Len(analyses)

\* two projects of one type: the count of the type is incremented twice
C17_Witness ==
    /\ report # <<>>
    /\ report[1].raised = ""
    /\ Len(analyses) = 2
    /\ analyses[1].project_type = "web-app"
    /\ analyses[2].project_type = "web-app"
    /\ report[1].project_stats.project_types["web-app"] = 2

\* project i of the input goes before project j in the ranking: its score is
\* greater, or the scores are identical and it comes first in the input
RanksBefore(i, j) ==
    \/ fgt(featured_score(analyses[i]), featured_score(analyses[j]))
    \/ /\ featured_score(analyses[i]) = featured_score(analyses[j])
       /\ i < j

\* the place of project p of the input in the ranking
RankOf(p) == Cardinality({q \in 1..Len(analyses) : RanksBefore(q, p)}) + 1

\* C15: _select_featured_projects returns the first min(limit, n) elements of
\* the input in descending order of score, two projects of identical score in
\* their input order.
C15_FeaturedSelection ==
    featured # <<>> =>
        /\ Len(featured[1]) = IF limit < Len(analyses) THEN limit ELSE Len(analyses)
        /\ \A p \in 1..Len(analyses) :
               RankOf(p) <= Len(featured[1]) => featured[1][RankOf(p)] = analyses[p]

\* three projects, the first of the lowest score and the other two, which
\* differ, of one score; with limit 2 the two are returned in their input order
C15_Witness ==
    /\ featured # <<>>
    /\ Len(analyses) = 3
    /\ limit = 2
    /\ analyses[2] # analyses[3]
    /\ featured_score(analyses[2]) = featured_score(analyses[3])
    /\ fgt(featured_score(analyses[2]), featured_score(analyses[1]))
    /\ featured[1] = <<analyses[2], analyses[3]>>

\* C19: with the enrichment modules not imported, generate_deep_report raises
\* nothing and returns the report generate_resume_report makes of the same
\* analyses, which has no deep_analysis block.
C19_UnavailableReturnsBase ==
    deep_report # <<>> /\ ~DEEP_ANALYSIS_AVAILABLE
        => /\ deep_report[1].raised = ""
           /\ deep_report[1] = generate_resume_report(analyses)
           /\ "deep_analysis" \notin DOMAIN deep_report[1]

\* the tags the mapping gives the languages of the analysed repository that
\* have a byte count above zero
C23_TagsOfNonZeroLanguages ==
    { tech_mapping[k][2] :
        k \in { n \in 1..Len(tech_mapping) :
                  /\ tech_mapping[n][1] \in DOMAIN repo.languages
                  /\ repo.languages[tech_mapping[n][1]] > 0 } }

\* C23: the tech-stack tags of an analysis are, without repetition, the tags
\* mapped to the languages of non-zero byte count; a language of zero bytes
\* and a language the mapping does not hold contribute no tag.
C23_TagsAreOfNonZeroLanguages ==
    analysis # <<>> =>
        /\ {analysis[1].tech_stack[i] : i \in 1..Len(analysis[1].tech_stack)}
               = C23_TagsOfNonZeroLanguages
        /\ \A i, j \in 1..Len(analysis[1].tech_stack) :
               analysis[1].tech_stack[i] = analysis[1].tech_stack[j] => i = j

\* C24: the analysis of a repository has the same tech-stack tag list, in the
\* same order, in every process, whatever the seed of its str hashes; so the
\* first five tags are the same too.
C24_TagOrderIsTheSameInEveryProcess ==
    analysis # <<>> =>
        \A seed \in HashSeeds :
            tech_stack_of(repo, seed) = analysis[1].tech_stack

\* the keyword-match count of the i-th declared project type
C25_Score(i) == type_score(text_to_analyze(repo), project_types[i].keywords)

\* C25: the project type is the fallback "other tool" when every type scores
\* zero, and otherwise the type of the highest keyword-match count, the
\* first-declared of the types that share it.
C25_TypeIsFirstOfHighestScore ==
    analysis # <<>> =>
        IF \A i \in 1..Len(project_types) : C25_Score(i) = 0
        THEN analysis[1].project_type = "other-tool"
        ELSE \E i \in 1..Len(project_types) :
                 /\ analysis[1].project_type = project_types[i].type
                 /\ \A j \in 1..Len(project_types) :
                        /\ C25_Score(j) <= C25_Score(i)
                        /\ j < i => C25_Score(j) < C25_Score(i)

\* the name "tool" matches one keyword of the second type and one of the
\* sixth, and no other: the second, declared first, is the label
C25_Witness ==
    /\ analysis # <<>>
    /\ repo.name = NameTool
    /\ C25_Score(2) = 1
    /\ C25_Score(6) = 1
    /\ \A i \in 1..Len(project_types) : C25_Score(i) <= 1
    /\ analysis[1].project_type = "automation-tool"

\* the rule of _suggest_roles at position n fires on the analysis
C26_Fires(n) ==
    LET tags == {analysis[1].tech_stack[i] : i \in 1..Len(analysis[1].tech_stack)}
    IN  CASE n = 1 -> analysis[1].ai_collaboration
          [] n = 2 -> \E t \in {"frontend-dev", "web-app", "React"} : t \in tags
          [] n = 3 -> \E t \in {"AI/ML", "data-processing"} : t \in tags
          [] n = 4 -> \E t \in {"automation", "script-tool"} : t \in tags
          [] n = 5 -> repo.stars > 10 \/ repo.forks > 5

C26_Fired == {n \in 1..5 : C26_Fires(n)}

C26_RoleOfRule ==
    << "AI-collaboration-expert", "frontend-engineer", "AI-product-manager",
       "automation-expert", "tech-lead" >>

\* C26: the role suggestions are the roles of the rules that fired, in rule
\* order, cut to the first three; the list is never empty, and it is the
\* fallback role alone exactly when no rule fired.
C26_RolesAreFiredRulesCutToThree ==
    analysis # <<>> =>
        LET roles == analysis[1].role_suggestions
        IN  /\ roles # <<>>
            /\ Len(roles) <= 3
            /\ (C26_Fired = {}) <=> (roles = <<"engineer">>)
            /\ C26_Fired # {} =>
                   /\ Len(roles) = IF Cardinality(C26_Fired) < 3
                                   THEN Cardinality(C26_Fired) ELSE 3
                   /\ \A k \in 1..Len(roles) :
                          \E n \in C26_Fired :
                              /\ Cardinality({m \in C26_Fired : m < n}) = k - 1
                              /\ roles[k] = C26_RoleOfRule[n]

\* all five rules fire and the first three roles are returned
C26_Witness ==
    /\ analysis # <<>>
    /\ C26_Fired = 1..5
    /\ analysis[1].role_suggestions
           = <<"AI-collaboration-expert", "frontend-engineer", "AI-product-manager">>

\* no rule fires on a repository whose only language the mapping does not
\* hold: the fallback role alone
C26_FallbackWitness ==
    /\ analysis # <<>>
    /\ C26_Fired = {}
    /\ DOMAIN repo.languages = {"Rust"}
    /\ analysis[1].role_suggestions = <<"engineer">>

\* the keys a skill matrix can hold: the tags, the AI key and the roles
C27_Keys ==
    {tech_mapping[k][2] : k \in 1..Len(tech_mapping)}
    \cup {"AI-collaboration", "engineer"}
    \cup {C26_RoleOfRule[n] : n \in 1..5}

\* the analyses whose tech stack holds the key
C27_WithTag(key) ==
    {i \in 1..Len(analyses) :
        \E k \in 1..Len(analyses[i].tech_stack) : analyses[i].tech_stack[k] = key}

\* the count the skill matrix is to give the key
C27_Count(key) ==
    Cardinality(C27_WithTag(key))
    + (IF key = "AI-collaboration"
       THEN Cardinality({i \in 1..Len(analyses) : analyses[i].ai_collaboration})
       ELSE 0)
    + Cardinality({i \in 1..Len(analyses) :
          \E k \in 1..Len(analyses[i].role_suggestions) :
              analyses[i].role_suggestions[k] = key})

\* the items hold every key of a count above zero once, with its count, hold
\* no other key, and are in descending order of count
C27_HoldsCounts(items, count(_)) ==
    /\ \A key \in C27_Keys :
           Cardinality({n \in 1..Len(items) : items[n][1] = key})
               = IF count(key) > 0 THEN 1 ELSE 0
    /\ \A n \in 1..Len(items) :
           /\ items[n][1] \in C27_Keys
           /\ items[n][2] = count(items[n][1])
           /\ items[n][2] > 0
           /\ n < Len(items) => items[n][2] >= items[n + 1][2]

C27_TagCount(key) == Cardinality(C27_WithTag(key))

\* C27: the skill matrix gives each key the number of projects whose tech
\* stack holds it, plus the number of AI-flagged projects for the AI key,
\* plus the number of projects whose role suggestions hold it; it has no key
\* of count 0 and is in descending order of count, and so is the tech-stack
\* usage histogram.
C27_SkillMatrixCountsDescending ==
    report # <<>> /\ report[1].raised = "" =>
        /\ C27_HoldsCounts(report[1].skill_matrix, C27_Count)
        /\ C27_HoldsCounts(report[1].project_stats.tech_stack_usage, C27_TagCount)

\* two analyses, one of them AI-flagged: keys of count 2 come before keys of
\* count 1, and a key met later than another is placed before it
C27_Witness ==
    /\ report # <<>>
    /\ report[1].raised = ""
    /\ Len(analyses) = 2
    /\ \E n \in 1..Len(report[1].skill_matrix) :
           report[1].skill_matrix[n] = <<"AI-collaboration", 1>>
    /\ report[1].skill_matrix[1][2] = 2
    /\ report[1].skill_matrix
           # count_keys(concat([i \in 1..2 |->
                 analyses[i].tech_stack
                 \o (IF analyses[i].ai_collaboration
                     THEN <<"AI-collaboration">> ELSE <<>>)
                 \o analyses[i].role_suggestions]))

\* C28: the high-value update suggestion counts the recent projects of the
\* top tier only, and is absent when there is none; the projects of the two
\* medium-high tiers are not counted.
C28_HighValueIsTopTierOnly ==
    report # <<>> /\ report[1].raised = "" =>
        LET top == SelectSeq(report[1].recent_updates,
                             LAMBDA p : p.business_value = "high/AI-complex")
            given == SelectSeq(report[1].update_suggestions,
                               LAMBDA suggestion : suggestion.kind = "high-value")
        IN  IF top = <<>> THEN given = <<>>
            ELSE /\ Len(given) = 1
                 /\ given[1].count = Len(top)

\* floor(10 * count / total), for a count that is at most the total
C21_Filled(count, total) ==
    CHOOSE f \in 0..10 : f * total <= 10 * count /\ (10 * count < (f + 1) * total
                                                      \/ f = 10)

\* C21: every skill count is at most total_repos, and the markdown holds for
\* every skill it has a row for (the first fifteen) a row whose bar is exactly 10 characters: floor(percentage/10)
\* filled ones followed by empty ones.
C21_BarIsTenCharacters ==
    rendered # <<>> /\ rendered[1].format_type = Markdown =>
        \A n \in 1..Len(slice_to(report[1].skill_matrix, 15)) :
            /\ report[1].skill_matrix[n][2] <= report[1].summary.total_repos
            /\ \E k \in 1..Len(rendered[1].outcome.content) :
                   /\ Len(rendered[1].outcome.content[k]) > 20
                   /\ SubSeq(rendered[1].outcome.content[k], 1, 21)
                        = <<"|", " ", report[1].skill_matrix[n][1], " ", "|", " ",
                            ToString(report[1].skill_matrix[n][2]), " ", "|", " ">>
                          \o [i \in 1..10 |->
                                 IF i <= C21_Filled(report[1].skill_matrix[n][2],
                                                    report[1].summary.total_repos)
                                 THEN "=" ELSE "."]
                          \o <<" ">>

\* the markdown of two analyses, with a skill of one project (five filled
\* characters) and a skill of both (ten)
C21_Witness ==
    /\ rendered # <<>>
    /\ rendered[1].format_type = Markdown
    /\ report[1].summary.total_repos = 2
    /\ \E n, m \in 1..Len(report[1].skill_matrix) :
           /\ report[1].skill_matrix[n][2] = 2
           /\ report[1].skill_matrix[m][2] = 1
    /\ \E k \in 1..Len(rendered[1].outcome.content) :
           \E j \in 1..(Len(rendered[1].outcome.content[k]) - 10) :
               SubSeq(rendered[1].outcome.content[k], j, j + 10)
                   = <<" ", "=", "=", "=", "=", "=", ".", ".", ".", ".", ".">>

\* C22: the plain text holds the description of every featured project as it
\* is in the report, and none of the markup characters the substitutions
\* remove.
C22_TextKeepsFactsVerbatim ==
    rendered # <<>> /\ rendered[1].format_type = Text =>
        /\ \A i \in 1..Len(report[1].featured_projects) :
               \E k \in 1..Len(rendered[1].outcome.content) :
                   contains(rendered[1].outcome.content[k],
                            report[1].featured_projects[i].repo.description)
        /\ \A k \in 1..Len(rendered[1].outcome.content) :
               \A j \in 1..Len(rendered[1].outcome.content[k]) :
                   rendered[1].outcome.content[k][j] \notin {"#", "*", "'"}

\* C29: when a run has written the markdown and the html file and has sent
\* the email, the attachments of the email are the paths of the two files.
C29_EmailAttachesTheReportsOfTheRun ==
    \A message \in sent :
        /\ message.channel = "email"
        /\ files[save_report_path(report_file(Markdown), Markdown)] = "complete"
        /\ files[save_report_path(report_file(Html), Html)] = "complete"
        => message.attachments
               = << save_report_path(report_file(Markdown), Markdown),
                    save_report_path(report_file(Html), Html) >>

\* the name of the k-th entry of the list, over its pages
C30_NameOfEntry(k) ==
    <<ToString(((k - 1) \div per_page) + 1), "-", ToString(((k - 1) % per_page) + 1)>>

\* a step of get_user_repos: page p is requested after p - 1 full pages; the
\* loop goes on to the next page after a full page only, and ends after a
\* page that is short, empty or not a 200; it then returns one record for each
\* entry of each page received, in the order of the pages
C30_Step ==
    /\ run_pc = "list" /\ run_pc' = "languages" =>
           /\ Len(repos) = (page - 1) * per_page
           /\ batch' # <<>>
    /\ run_pc = "readme" /\ run_pc' = "list" =>
           /\ Len(batch) = per_page
           /\ page' = page + 1
    /\ run_pc # "analyze" /\ run_pc' = "analyze" =>
           /\ run_pc = "readme" => Len(batch) < per_page
           /\ run_pc = "list" => repos' = repos
           /\ Len(repos') = IF page' = 1 THEN 0
                            ELSE (page' - 2) * per_page + Len(batch')
           /\ \A k \in 1..Len(repos') : repos'[k].name = C30_NameOfEntry(k)

\* once a page is received, get_user_repos builds the record of each of its
\* entries and goes on to the next page or returns
C30_EndsByReturning ==
    run_pc \in {"languages", "readme"}
        => run_pc' \in {"list", "languages", "readme", "analyze"}

\* C30: get_user_repos requests the pages 1, 2, 3, ... in order, stops at the
\* first page that is not a 200, is empty or has fewer than 100 entries, and
\* on termination returns one record for every entry of every page received,
\* in page order.
C30_ListingReturnsEveryPageReceived == [][C30_Step /\ C30_EndsByReturning]_vars

\* the steps of the listing are as the claim has them until an exception
C30_ListingUntilAnException == [][C30_Step]_vars

====
